---- MODULE Spec2Model ----
(***************************************************************************)
(* Model of the peer-to-peer transfer core of the fileshare repository:    *)
(* the peer client (peer/client.py), the peer server (peer/server.py),     *)
(* the crypto helpers (peer/crypto.py) and the chunk store                 *)
(* (peer/chunk_manager.py).                                                *)
(*                                                                         *)
(* Byte strings are sequences of symbols.  A symbol is one byte ("a", "|") *)
(* or a word of several bytes that the code only ever handles as a whole   *)
(* ("HELLO", "f.bin", "12").  A frame is what one reader.read() returns.   *)
(***************************************************************************)
EXTENDS Integers, Sequences, FiniteSets, TLC

----------------------------------------------------------------------------
(* Bounds of the model *)

\* largest chunk count a META reply of a remote peer advertises
MaxChunks == 5
\* a remote peer may substitute the payload of the chunks below this index
MaxAltChunks == 1
\* number of connections remote clients open to the peer server
MaxServerConns == 2
\* number of frames remote clients send to the peer server
MaxRequests == 2

\* largest number of candidates the registry returns to download_from_discovery
MaxCandidates == 3
\* largest chunk count advertised to a download started by download_from_discovery
MaxDiscoveryChunks == 1
\* number of requests to the registry plus advances of its clock
MaxRegistrySteps == 5
\* largest file, in bytes, and largest chunk size the chunk store is run with
MaxFileSize == 7
MaxChunkSize == 3
\* number of requests the registry has received and not yet answered
MaxHandlers == 2
\* chunks of the file whose download is followed on the wire
MaxFetchChunks == 1

(* Program constants *)

\* time-to-live of a registry entry, in seconds
TIL == 60

MAX_CONCURRENT_CHUNKS == 4

----------------------------------------------------------------------------
(* Byte strings *)

HELLO == "HELLO"
SESSION == "SESSION"

\* decimal rendering of small naturals: str(i) and int(s)
DecTable ==
  <<"0", "1", "2", "3", "4", "5", "6", "7", "8", "9", "10", "11", "12",
    "13", "14", "15", "16", "17", "18", "19", "20", "21", "22", "23", "24">>
str(i) == DecTable[i + 1]
IsInt(s) == \E i \in 1..Len(DecTable) : DecTable[i] = s
int(s) == (CHOOSE i \in 1..Len(DecTable) : DecTable[i] = s) - 1

RECURSIVE split(_, _)
\* bytes.split(b"|", maxsplit); maxsplit < 0 means no limit
split(s, maxsplit) ==
  IF maxsplit = 0 \/ ~(\E i \in 1..Len(s) : s[i] = "|")
  THEN <<s>>
  ELSE LET i == CHOOSE k \in 1..Len(s) :
                   s[k] = "|" /\ \A j \in 1..(k - 1) : s[j] # "|"
       IN  <<SubSeq(s, 1, i - 1)>> \o split(SubSeq(s, i + 1, Len(s)), maxsplit - 1)

startswith(s, word) == Len(s) > 0 /\ s[1] = word

VARIABLES
  chunk_size,   \* the value of CHUNK_SIZE (1 MB in the source, scaled to a few bytes)
  shared_bytes, \* chunk store: the contents of the shared file
  store_meta,   \* chunk store: the dict get_file_metadata returned
  store_chunks  \* chunk store: what read_chunk returned for the indices 0, 1, ...

storeVars == <<chunk_size, shared_bytes, store_meta, store_chunks>>

CHUNK_SIZE == chunk_size

----------------------------------------------------------------------------
(* Identity and crypto (peer/identity.py, peer/crypto.py) *)

\* key pairs are named by a letter; the client's own pair is "A"
KeyNames == {"A", "B"}
NoBlob == [pub |-> "", key |-> 0]

\* a PEM byte string as it travels in HELLO, and the key object loaded from it
PemBytes(name) == [type |-> "bytes", v |-> name]
ValidPem(sym) == sym \in {"pemA", "pemB"}
PemName(sym) == IF sym = "pemA" THEN "A" ELSE "B"
PemSym(name) == IF name = "A" THEN "pemA" ELSE "pemB"
load_pem_public_key(pem) == [type |-> "RSAPublicKey", v |-> pem.v]

\* load_keys(): the private and the public key object of this installation
load_keys == [private |-> "A", public |-> [type |-> "RSAPublicKey", v |-> "A"]]

\* a plausible slip: one key serves every connection
generate_aes_key_Shared(n) == 1

\* generate_aes_key(): AESGCM.generate_key, random bytes that are taken to
\* differ from call to call; n is the number of keys handed out before
generate_aes_key(n) == n + 1

\* RSA-OAEP wrap: public_key.encrypt(aes_key, ...).  A value without an
\* encrypt method (such as a bytes object) raises AttributeError.
encrypt_session_key(public_key, aes_key) ==
  IF public_key.type = "RSAPublicKey"
  THEN [raised |-> FALSE, blob |-> [pub |-> public_key.v, key |-> aes_key]]
  ELSE [raised |-> TRUE, blob |-> NoBlob]

\* a plausible slip: the unwrap does not depend on the private key
decrypt_session_key_AnyKey(private_key, encrypted_key) ==
  IF encrypted_key.key # 0
  THEN [raised |-> FALSE, key |-> encrypted_key.key]
  ELSE [raised |-> TRUE, key |-> 0]

\* RSA-OAEP unwrap: private_key.decrypt(encrypted_key, ...) raises unless the
\* blob was wrapped under the matching public key
decrypt_session_key(private_key, encrypted_key) ==
  IF encrypted_key.pub = private_key /\ encrypted_key.key # 0
  THEN [raised |-> FALSE, key |-> encrypted_key.key]
  ELSE [raised |-> TRUE, key |-> 0]

\* the digest of a byte string; SHA-256 is taken to be collision free, so a
\* digest is named by the bytes that were hashed
sha256(bytes) == [hex |-> "<sha>", of |-> bytes]
NoDigest == <<>>

(* Frames.  enc: AES-GCM frame (nonce, ciphertext, tag) under key, with
   intact = FALSE when a byte of it was altered or cut off; body: the bytes
   (the plaintext of an AES-GCM frame); blob: the RSA blob the symbol
   "<blob>" of the body stands for; digest: the bytes whose digest the symbol
   "<sha>" of the body stands for. *)
Frame(enc, key, intact, body, blob, digest) ==
  [enc |-> enc, key |-> key, intact |-> intact, body |-> body,
   blob |-> blob, digest |-> digest]
Plain(body) == Frame(FALSE, 0, TRUE, body, NoBlob, NoDigest)
EOF == Plain(<<>>)
\* the bytes of a frame as a reader that does not decrypt sees them
raw(frame) == IF frame.enc THEN <<"<ciphertext>">> ELSE frame.body

\* aes_encrypt(aes_key, plaintext): nonce + ciphertext + tag
aes_encrypt(aes_key, plaintext, digest) ==
  Frame(TRUE, aes_key, TRUE, plaintext, NoBlob, digest)

\* a plausible slip: the tag is not verified
aes_decrypt_NoAuth(aes_key, frame) ==
  [raised |-> FALSE, body |-> frame.body, digest |-> frame.digest]

\* aes_decrypt(aes_key, ciphertext): raises InvalidTag unless the frame was
\* produced under the same key and is unaltered
aes_decrypt(aes_key, frame) ==
  IF frame.enc /\ frame.key = aes_key /\ frame.intact
  THEN [raised |-> FALSE, body |-> frame.body, digest |-> frame.digest]
  ELSE [raised |-> TRUE, body |-> <<>>, digest |-> NoDigest]

----------------------------------------------------------------------------
(* Chunk store (peer/chunk_manager.py) and the files peers share *)

Alphabet ==
  <<"a", "|", "b", "d", "e", "f", "g", "h", "i", "j", "k", "l",
    "m", "n", "o", "p", "q", "r", "s", "t", "u", "v", "w", "x">>

Min(a, b) == IF a < b THEN a ELSE b

\* a file of n chunks whose last chunk is one byte short of CHUNK_SIZE
FileOfChunks(n) == IF n = 0 THEN <<>> ELSE SubSeq(Alphabet, 1, n * CHUNK_SIZE - 1)

\* the shared directory of the peer server: one file of 2.5 chunks, with the
\* delimiter byte in its first chunk
SharedName == <<"f.bin">>
MissingName == <<"nope">>
FileNames == {SharedName, MissingName}
\* a plausible slip: files are not looked up before they are served
exists_Always(filename) == TRUE

\* os.path.exists(file_path) in the shared directory
exists(filename) == filename = SharedName

FileBytes(filename) == shared_bytes

\* a plausible slip: the seek offset is the chunk index, not index * size
read_chunk_NoScale(bytes, chunk_index) ==
  SubSeq(bytes, chunk_index + 1, Min(chunk_index + CHUNK_SIZE, Len(bytes)))

\* read_chunk: seek(chunk_index * CHUNK_SIZE), read(CHUNK_SIZE)
read_chunk(bytes, chunk_index) ==
  SubSeq(bytes, chunk_index * CHUNK_SIZE + 1,
         Min((chunk_index + 1) * CHUNK_SIZE, Len(bytes)))

RECURSIVE ReadAll(_, _)
\* the reads of iter(lambda: f.read(CHUNK_SIZE), b"") from offset pos on
ReadAll(bytes, pos) ==
  IF pos >= Len(bytes) THEN <<>>
  ELSE SubSeq(bytes, pos + 1, Min(pos + CHUNK_SIZE, Len(bytes)))
         \o ReadAll(bytes, pos + CHUNK_SIZE)

\* a plausible slip: the quotient plus one
total_chunks_QuotientPlusOne(file_size) == file_size \div CHUNK_SIZE + 1

\* total_chunks = (file_size + CHUNK_SIZE - 1) // CHUNK_SIZE
total_chunks(file_size) == (file_size + CHUNK_SIZE - 1) \div CHUNK_SIZE

\* chunk_manager.get_file_metadata(file_path)
chunk_metadata(filename) ==
  LET bytes == FileBytes(filename) IN
  [filename |-> filename,
   size     |-> Len(bytes),
   chunksize |-> CHUNK_SIZE,
   chunks   |-> total_chunks(Len(bytes)),
   hash     |-> sha256(ReadAll(bytes, 0))]

----------------------------------------------------------------------------
(* State *)

VARIABLES
  topology,   \* who is at the two ends: "remote_peer" (this client against any
              \* peer), "remote_client" (any client against this server),
              \* "local" (this client against this server); or the part that
              \* runs on its own: "registry" (one request after the other),
              \* "handlers" (the registry with several requests received),
              \* "runner" (the registry and one peer in full mode),
              \* "discovery", "chunk_store"; "fetch" is "remote_peer" with the
              \* transport between the peer and the client shown

  filename,   \* connect_to_peer: the filename argument
  cpc,        \* connect_to_peer: where the coroutine stands
  result,     \* connect_to_peer: "pending", "True" or "False"
  meta,       \* connect_to_peer: the metadata dict
  tstate,     \* state of the download_chunk task of every index
  aes_key,    \* aes_key of the client on every connection (0: none)
  encrypted_key, \* encrypted_key of the client on every connection
  sem,        \* semaphore._value
  waiters,    \* semaphore._waiters
  chunks,     \* the chunks dict, as (index, bytes) pairs in insertion order
  outfile,    \* the file at output_path
  opened,     \* open(output_path, "wb") was executed
  hashobj,    \* the bytes fed to file_hash_obj
  widx,       \* loop index of the reassembly loop
  copen,      \* the client holds an open socket for the connection
  c2s,        \* frames this client wrote to this server, per connection
  s2c,        \* frames this server wrote, per connection
  crd,        \* number of server frames the client consumed
  srd,        \* number of client frames the server consumed
  handler,    \* server: the coroutine serving the connection
  sopen,      \* server: the transport of the connection is open
  skey,       \* server: aes_key of the connection (0: none)
  sfirst,     \* server: the data handle_peer read
  slast,      \* server: the frame serve_file read last
  keyctr,     \* number of AES keys generate_aes_key has handed out
  PEERS,      \* registry: the PEERS dict, its items in insertion order
  now,        \* registry: what time.time() returns
  resp,       \* registry: the last request (op, peer_id, file) and its response
  rsteps,     \* registry: requests handled and clock advances so far
  handlers,   \* registry: the handler coroutine of every request it has received
  reg_success, \* runner.main: success, what its one register_peer call returned
              \* ("none" before the call, then "True" or "False")
  outfile0,   \* the file at output_path when connect_to_peer was called
  dpc,        \* download_from_discovery: where the coroutine stands
  dpeers,     \* download_from_discovery: the peers list of the registry response
  dtried,     \* download_from_discovery: the peers connect_to_peer was called with
  dresult,    \* download_from_discovery: "pending", "True" or "False"
  wire,       \* the frame the peer wrote in reply to the GET of every chunk task
  arrived     \* how much of that frame has reached the client's StreamReader:
              \* "none", "part" (a proper prefix) or "all"

clientVars ==
  <<filename, cpc, result, meta, tstate, aes_key, encrypted_key, sem, waiters, chunks,
    outfile, opened, hashobj, widx, copen, crd>>
serverVars == <<srd, handler, sopen, skey, sfirst, slast, keyctr>>
registryVars == <<PEERS, now, resp, rsteps, handlers, reg_success>>
discoveryVars == <<outfile0, dpc, dpeers, dtried, dresult>>
wireVars == <<wire, arrived>>
vars ==
  <<topology, storeVars, wireVars, clientVars, c2s, s2c, serverVars, registryVars,
    discoveryVars>>

MetaConn == 0
ChunkConn(index) == index + 1
ChunkIdx == 0..(MaxChunks - 1)
ServerConns == 1..MaxServerConns
ConnIds == 0..(IF MaxChunks > MaxServerConns THEN MaxChunks ELSE MaxServerConns)

NoMeta == [filename |-> <<>>, file_size |-> 0, total_chunks |-> 0,
           hash |-> [hex |-> "", of |-> <<>>]]
NoFrame == Plain(<<"<none>">>)
NoFile == [exists |-> FALSE, bytes |-> <<>>]
OldFile == [exists |-> TRUE, bytes |-> <<"o", "l", "d">>]

NoStoreMeta == [filename |-> <<>>, size |-> 0, chunksize |-> 0, chunks |-> 0,
                hash |-> [hex |-> "", of |-> <<>>]]

NoFilter == "<None>"
NoIp == "<None>"
NoResponse ==
  [op |-> "none", peer_id |-> "", file |-> NoFilter, status |-> "none", ip |-> "",
   peers |-> <<>>]

----------------------------------------------------------------------------
(* What a remote peer may answer.  A remote peer is any program at the other
   end of a connection the client opened; RemoteKey(x) is the session key it
   generated for connection x. *)

RemoteKey(x) == x + 1
\* largest chunk count a remote peer advertises
ChunkBound ==
  CASE topology = "discovery" -> MaxDiscoveryChunks
    [] topology = "fetch" -> MaxFetchChunks
    [] OTHER -> MaxChunks
WrongKey(x) == x + 101

SessionFrame(blob) == Frame(FALSE, 0, TRUE, <<SESSION, "|", "<blob>">>, blob, NoDigest)
Tampered(frame) == [frame EXCEPT !.intact = FALSE]

ErrorBody(name) == <<"ERROR", "|", "File not found: ">> \o name
MetaBody(name, size, chunksize, count) ==
  <<"META", "|">> \o name
    \o <<"|", str(size), "|", str(chunksize), "|", str(count), "|", "<sha>">>
ChunkBody(index, data) == <<"CHUNK", "|", str(index), "|">> \o data

\* a payload that contains the delimiter byte
AltPayload == <<"|", "z">>

RemoteSessionReplies(x) ==
  {EOF, Plain(<<"ERROR">>), Plain(<<SESSION>>), SessionFrame(NoBlob)}
    \cup {SessionFrame([pub |-> p, key |-> RemoteKey(x)]) : p \in KeyNames}

RemoteMetaReplies(x) ==
  LET k == RemoteKey(x) IN
  {EOF,
   aes_encrypt(WrongKey(x), ErrorBody(filename), NoDigest),
   Tampered(aes_encrypt(k, ErrorBody(filename), NoDigest)),
   aes_encrypt(k, ErrorBody(filename), NoDigest),
   aes_encrypt(k, <<"META", "|">> \o filename, NoDigest),
   aes_encrypt(k, <<"META", "|">> \o filename \o <<"|", "1", "|", "1", "|", "x", "|", "<sha>">>,
               NoDigest)}
    \cup {aes_encrypt(k, MetaBody(filename, Len(FileOfChunks(n)), CHUNK_SIZE, n),
                      FileOfChunks(n)) : n \in 0..ChunkBound}

RemoteChunkReplies(x, index) ==
  LET k == RemoteKey(x)
      honest == read_chunk(FileOfChunks(meta.total_chunks), index)
  IN
  {EOF,
   aes_encrypt(WrongKey(x), ChunkBody(index, honest), NoDigest),
   Tampered(aes_encrypt(k, ChunkBody(index, honest), NoDigest)),
   aes_encrypt(k, ErrorBody(filename), NoDigest),
   aes_encrypt(k, <<"CHUNK", "|", str(index)>>, NoDigest)}
    \cup {aes_encrypt(k, ChunkBody(j, data), NoDigest) :
            j \in {index, index + 1},
            data \in {honest, <<>>}
                       \cup (IF index < MaxAltChunks THEN {AltPayload} ELSE {})}

\* what reader.read() of the client can return on connection x: the next
\* unread frame of this server or its end of stream, or any remote reply
ClientInput(x, remote) ==
  IF topology = "local"
  THEN IF crd[x] < Len(s2c[x]) THEN {s2c[x][crd[x] + 1]}
       ELSE IF handler[x] # "none" /\ ~sopen[x] THEN {EOF} ELSE {}
  ELSE remote

Consumed(x, frame) ==
  IF topology = "local" /\ crd[x] < Len(s2c[x])
  THEN [crd EXCEPT ![x] = @ + 1] ELSE crd

----------------------------------------------------------------------------
(* Peer client (peer/client.py) *)

get_peer_id(public_key) == IF public_key.v = "A" THEN "idA" ELSE "idB"
public_bytes(public_key) == PemSym(public_key.v)

\* hello_msg = HELLO + b"|" + peer_id.encode() + b"|" + public_key_pem
hello_msg ==
  Plain(<<HELLO, "|", get_peer_id(load_keys.public), "|", public_bytes(load_keys.public)>>)

\* data.startswith(SESSION); _, encrypted_key = data.split(b"|", 1);
\* aes_key = decrypt_session_key(private_key, encrypted_key).
\* ok = FALSE: the function returns None (not a SESSION reply, or an exception)
ClientHandshake(data) ==
  LET fields == split(raw(data), 1)
      blob == IF Len(fields) = 2 /\ fields[2] = <<"<blob>">> THEN data.blob ELSE NoBlob
      unwrapped == decrypt_session_key(load_keys.private, blob)
  IN  IF ~startswith(raw(data), SESSION) \/ Len(fields) # 2 \/ unwrapped.raised
      THEN [ok |-> FALSE, blob |-> NoBlob, key |-> 0]
      ELSE [ok |-> TRUE, blob |-> blob, key |-> unwrapped.key]

\* the part of get_file_metadata after the META reply was read: decrypt,
\* decode, reject ERROR, split, build the dict.  ok = FALSE: returns None.
ParseMeta(key, frame) ==
  LET plain == aes_decrypt(key, frame)
      parts == split(plain.body, -1)
      isnum(f) == Len(f) = 1 /\ IsInt(f[1])
  IN  IF plain.raised \/ startswith(plain.body, "ERROR") \/ Len(parts) < 6
         \/ ~isnum(parts[3]) \/ ~isnum(parts[4]) \/ ~isnum(parts[5])
      THEN [ok |-> FALSE, closed |-> ~plain.raised, meta |-> NoMeta]
      ELSE [ok |-> TRUE, closed |-> TRUE,
            meta |-> [filename |-> parts[2],
                      file_size |-> int(parts[3][1]),
                      total_chunks |-> int(parts[5][1]),
                      hash |-> IF parts[6] = <<"<sha>">> THEN sha256(plain.digest)
                               ELSE [hex |-> "junk", of |-> <<>>]]]

\* a plausible slip: the payload is split on every delimiter
ParseChunk_SplitAll(key, frame) ==
  LET plain == aes_decrypt(key, frame)
      chunk_parts == split(plain.body, -1)
  IN  IF plain.raised THEN [none |-> TRUE, closed |-> FALSE, bytes |-> <<>>]
      ELSE IF Len(chunk_parts) >= 3 /\ chunk_parts[1] = <<"CHUNK">>
           THEN [none |-> FALSE, closed |-> TRUE, bytes |-> chunk_parts[3]]
           ELSE [none |-> TRUE, closed |-> TRUE, bytes |-> <<>>]

\* the part of download_single_chunk after the CHUNK reply was read: decrypt,
\* close, chunk_data.split(b"|", 2), return chunk_parts[2] or None
ParseChunk(key, frame) ==
  LET plain == aes_decrypt(key, frame)
      chunk_parts == split(plain.body, 2)
  IN  IF plain.raised THEN [none |-> TRUE, closed |-> FALSE, bytes |-> <<>>]
      ELSE IF Len(chunk_parts) >= 3 /\ chunk_parts[1] = <<"CHUNK">>
           THEN [none |-> FALSE, closed |-> TRUE, bytes |-> chunk_parts[3]]
           ELSE [none |-> TRUE, closed |-> TRUE, bytes |-> <<>>]

\* writer.write(frame); a remote peer reads it, this server finds it in c2s
Send(x, frame) ==
  c2s' = IF topology = "local" THEN [c2s EXCEPT ![x] = Append(@, frame)] ELSE c2s

\* get_file_metadata: open_connection succeeds, HELLO is written
MetaConnect ==
  /\ topology # "remote_client"
  /\ cpc = "start"
  /\ cpc' = "meta_session"
  /\ copen' = [copen EXCEPT ![MetaConn] = TRUE]
  /\ Send(MetaConn, hello_msg)
  /\ UNCHANGED <<topology, storeVars, wireVars, registryVars, discoveryVars, filename, result, meta, tstate, aes_key, encrypted_key,
                 sem, waiters, chunks, outfile, opened, hashobj, widx, crd,
                 s2c, serverVars>>

\* get_file_metadata: open_connection raises (refused, or CONNECT_TIMEOUT
\* expired); connect_to_peer returns False
MetaConnectFails ==
  /\ topology \in {"remote_peer", "discovery", "fetch"}
  /\ cpc = "start"
  /\ cpc' = "done"
  /\ result' = "False"
  /\ UNCHANGED <<topology, storeVars, wireVars, registryVars, discoveryVars, filename, meta, tstate, aes_key, encrypted_key, sem,
                 waiters, chunks, outfile, opened, hashobj, widx, copen, crd,
                 c2s, s2c, serverVars>>

\* get_file_metadata: the reply to HELLO is read
MetaSession ==
  /\ cpc = "meta_session"
  /\ \E data \in ClientInput(MetaConn, RemoteSessionReplies(MetaConn)) :
       LET hs == ClientHandshake(data) IN
       /\ crd' = Consumed(MetaConn, data)
       /\ IF hs.ok
          THEN /\ cpc' = "meta_reply"
               /\ aes_key' = [aes_key EXCEPT ![MetaConn] = hs.key]
               /\ encrypted_key' = [encrypted_key EXCEPT ![MetaConn] = hs.blob]
               /\ Send(MetaConn, aes_encrypt(hs.key, <<"META", "|">> \o filename, NoDigest))
               /\ UNCHANGED result
          ELSE /\ cpc' = "done"
               /\ result' = "False"
               /\ UNCHANGED <<aes_key, encrypted_key, c2s>>
  /\ UNCHANGED <<topology, storeVars, wireVars, registryVars, discoveryVars, filename, meta, tstate, sem, waiters, chunks, outfile,
                 opened, hashobj, widx, copen, s2c, serverVars>>

\* a plausible slip: the result of get_file_metadata is not checked
not_meta_Unchecked(r) == FALSE

\* if not meta
not_meta(r) == ~r.ok

\* get_file_metadata: the reply to META is read; on success connect_to_peer
\* goes on to create the semaphore and the tasks
MetaReply ==
  /\ cpc = "meta_reply"
  /\ \E frame \in ClientInput(MetaConn, RemoteMetaReplies(MetaConn)) :
       LET r == ParseMeta(aes_key[MetaConn], frame) IN
       /\ crd' = Consumed(MetaConn, frame)
       /\ copen' = [copen EXCEPT ![MetaConn] = IF r.closed THEN FALSE ELSE @]
       /\ aes_key' = [aes_key EXCEPT ![MetaConn] = 0]
       /\ encrypted_key' = [encrypted_key EXCEPT ![MetaConn] = NoBlob]
       /\ r.ok => r.meta.total_chunks <= ChunkBound
       /\ IF ~not_meta(r)
          THEN /\ meta' = r.meta
               /\ cpc' = "gather"
               /\ sem' = MAX_CONCURRENT_CHUNKS
               /\ UNCHANGED result
          ELSE /\ cpc' = "done"
               /\ result' = "False"
               /\ UNCHANGED <<meta, sem>>
  /\ UNCHANGED <<topology, storeVars, wireVars, registryVars, discoveryVars, filename, tstate, waiters, chunks, outfile, opened,
                 hashobj, widx, c2s, s2c, serverVars>>

Tasks == 0..(meta.total_chunks - 1)
Settled(i) == tstate[i] \in {"ok", "failed"}
\* the tasks that are inside download_single_chunk
InFlight ==
  {i \in Tasks : tstate[i] \in {"connecting", "await_session", "await_chunk", "read_blocked"}}
\* the tasks that are inside semaphore.acquire()
InAcquire == {i \in Tasks : tstate[i] \in {"waiting", "woken"}}

\* a plausible slip: the gate admits every task
Acquire_NoGate(st, i) ==
  [st EXCEPT !.t[i] = "connecting", !.v = IF @ > 0 THEN @ - 1 ELSE 0]

\* Semaphore.acquire() of a task that starts: take a slot when the semaphore
\* is not locked, else queue up.  st = [t: task states, v: _value, w: _waiters]
Acquire(st, i) ==
  IF st.v > 0 /\ st.w = <<>>
  THEN [st EXCEPT !.t[i] = "connecting", !.v = @ - 1]
  ELSE [st EXCEPT !.t[i] = "waiting", !.w = Append(@, i)]

RECURSIVE StartTasks(_, _, _)
\* the first step of the tasks i..n-1, in the order gather created them
StartTasks(st, i, n) ==
  IF i >= n THEN st ELSE StartTasks(Acquire(st, i), i + 1, n)

\* Semaphore._wake_up_next(): hand the slot to the first waiter that is not done
WakeUpNext(st) ==
  LET cand == {k \in 1..Len(st.w) : st.t[st.w[k]] = "waiting"} IN
  IF cand = {} THEN st
  ELSE LET k == CHOOSE c \in cand : \A d \in cand : c <= d
       IN  [st EXCEPT !.t[st.w[k]] = "woken", !.v = @ - 1]

\* a plausible slip: the slot is not given back
Release_Keeps(st) == st

\* Semaphore.release()
Release(st) == WakeUpNext([st EXCEPT !.v = @ + 1])

\* results = await asyncio.gather(*tasks): every task runs its first step
Gather ==
  /\ cpc = "gather"
  /\ LET st == StartTasks([t |-> tstate, v |-> sem, w |-> waiters], 0, meta.total_chunks) IN
       /\ tstate' = st.t
       /\ sem' = st.v
       /\ waiters' = st.w
  /\ cpc' = "wait"
  /\ UNCHANGED <<topology, storeVars, wireVars, registryVars, discoveryVars, filename, result, meta, aes_key, encrypted_key, chunks,
                 outfile, opened, hashobj, widx, copen, crd, c2s, s2c, serverVars>>

\* a plausible slip: "if chunk_data is not None"
truthy_NotNone(chunk_data) == ~chunk_data.none

\* if chunk_data: neither None nor empty bytes
truthy(chunk_data) == ~chunk_data.none /\ chunk_data.bytes # <<>>

\* the end of download_chunk(index): store the chunk when chunk_data is truthy,
\* then leave the "async with semaphore" block
Settle(index, chunk_data, closed) ==
  LET good == truthy(chunk_data)
      st == Release([t |-> [tstate EXCEPT ![index] = IF good THEN "ok" ELSE "failed"],
                     v |-> sem, w |-> waiters])
  IN  /\ chunks' = IF good THEN Append(chunks, <<index, chunk_data.bytes>>) ELSE chunks
      /\ tstate' = st.t
      /\ sem' = st.v
      /\ waiters' = st.w
      /\ aes_key' = [aes_key EXCEPT ![ChunkConn(index)] = 0]
      /\ encrypted_key' = [encrypted_key EXCEPT ![ChunkConn(index)] = NoBlob]
      /\ copen' = [copen EXCEPT ![ChunkConn(index)] = IF closed THEN FALSE ELSE @]

None == [none |-> TRUE, closed |-> FALSE, bytes |-> <<>>]

\* a task woken by release() returns from acquire() and calls
\* download_single_chunk, which starts to connect
TaskResume(i) ==
  /\ cpc = "wait"
  /\ tstate[i] = "woken"
  /\ LET w1 == SelectSeq(waiters, LAMBDA j : j # i)
         st0 == [t |-> [tstate EXCEPT ![i] = "connecting"], v |-> sem, w |-> w1]
         st == IF sem > 0 THEN WakeUpNext(st0) ELSE st0
     IN  /\ tstate' = st.t
         /\ sem' = st.v
         /\ waiters' = st.w
  /\ UNCHANGED <<topology, storeVars, wireVars, registryVars, discoveryVars, filename, cpc, result, meta, aes_key, encrypted_key,
                 chunks, outfile, opened, hashobj, widx, copen, crd, c2s, s2c,
                 serverVars>>

\* download_single_chunk: open_connection succeeds, HELLO is written
TaskConnect(i) ==
  /\ cpc = "wait"
  /\ tstate[i] = "connecting"
  /\ tstate' = [tstate EXCEPT ![i] = "await_session"]
  /\ copen' = [copen EXCEPT ![ChunkConn(i)] = TRUE]
  /\ Send(ChunkConn(i), hello_msg)
  /\ UNCHANGED <<topology, storeVars, wireVars, registryVars, discoveryVars, filename, cpc, result, meta, aes_key, encrypted_key,
                 sem, waiters, chunks, outfile, opened, hashobj, widx, crd, s2c,
                 serverVars>>

\* download_single_chunk: open_connection raises; the task returns False
TaskConnectFails(i) ==
  /\ cpc = "wait"
  /\ topology \in {"remote_peer", "discovery", "fetch"}
  /\ tstate[i] = "connecting"
  /\ Settle(i, None, FALSE)
  /\ UNCHANGED <<topology, storeVars, wireVars, registryVars, discoveryVars, filename, cpc, result, meta, outfile, opened, hashobj,
                 widx, crd, c2s, s2c, serverVars>>

\* download_single_chunk: the reply to HELLO is read
TaskSession(i) ==
  /\ cpc = "wait"
  /\ tstate[i] = "await_session"
  /\ \E data \in ClientInput(ChunkConn(i), RemoteSessionReplies(ChunkConn(i))) :
       LET hs == ClientHandshake(data) IN
       /\ crd' = Consumed(ChunkConn(i), data)
       /\ IF hs.ok
          THEN /\ tstate' = [tstate EXCEPT ![i] = "await_chunk"]
               /\ aes_key' = [aes_key EXCEPT ![ChunkConn(i)] = hs.key]
               /\ encrypted_key' = [encrypted_key EXCEPT ![ChunkConn(i)] = hs.blob]
               /\ Send(ChunkConn(i),
                       aes_encrypt(hs.key, <<"GET", "|">> \o filename \o <<"|", str(i)>>,
                                   NoDigest))
               /\ UNCHANGED <<sem, waiters, chunks, copen>>
          ELSE /\ Settle(i, None, FALSE)
               /\ UNCHANGED c2s
  /\ UNCHANGED <<topology, storeVars, wireVars, registryVars, discoveryVars, filename, cpc, result, meta, outfile, opened, hashobj,
                 widx, s2c, serverVars>>

\* a frame of which only a proper prefix is at hand: its nonce, ciphertext or
\* tag is incomplete
Cut(frame) == [frame EXCEPT !.intact = FALSE]

\* reader.read(n) of a stream that holds `got` of the frame the peer wrote: it
\* returns what the StreamReader has buffered, without waiting for more, once
\* the buffer is not empty or the peer closed the stream (n exceeds the length
\* of every frame)
StreamRead(frame, got) ==
  CASE got = "none" -> {}
    [] got = "part" -> {Cut(frame)}
    [] OTHER -> {frame}

\* the peer writes its reply to the GET request of chunk task i
PeerWritesChunk(i) ==
  /\ topology = "fetch"
  /\ cpc = "wait"
  /\ tstate[i] = "await_chunk"
  /\ wire[i] = NoFrame
  /\ \E frame \in RemoteChunkReplies(ChunkConn(i), i) : wire' = [wire EXCEPT ![i] = frame]
  /\ UNCHANGED <<topology, storeVars, arrived, clientVars, c2s, s2c, serverVars, registryVars,
                 discoveryVars>>

\* the transport delivers the next segment of the reply to the client: the
\* rest of the frame, or less
Deliver(i) ==
  /\ topology = "fetch"
  /\ tstate[i] = "await_chunk"
  /\ wire[i] # NoFrame
  /\ arrived[i] # "all"
  /\ \E got \in (IF arrived[i] = "none" /\ wire[i] # EOF THEN {"part", "all"} ELSE {"all"}) :
       arrived' = [arrived EXCEPT ![i] = got]
  /\ UNCHANGED <<topology, storeVars, wire, clientVars, c2s, s2c, serverVars, registryVars,
                 discoveryVars>>

\* what reader.read(1024 * 1024 + 100) of chunk task i can return
ChunkInput(i) ==
  IF topology = "fetch"
  THEN StreamRead(wire[i], arrived[i])
  ELSE ClientInput(ChunkConn(i), RemoteChunkReplies(ChunkConn(i), i))

\* download_single_chunk: the reply to GET is read
TaskChunk(i) ==
  /\ cpc = "wait"
  /\ tstate[i] = "await_chunk"
  /\ \E frame \in ChunkInput(i) :
       LET r == ParseChunk(aes_key[ChunkConn(i)], frame) IN
       /\ crd' = Consumed(ChunkConn(i), frame)
       /\ Settle(i, r, r.closed)
  /\ UNCHANGED <<topology, storeVars, wireVars, registryVars, discoveryVars, filename, cpc, result, meta, outfile, opened, hashobj,
                 widx, c2s, s2c, serverVars>>

\* get_file_metadata: the peer accepted the connection and never answers.
\* reader.read() is awaited without a timeout (READ_TIMEOUT is not used), so
\* the coroutine stays in the read.  Peers that stay silent are met in the
\* downloads that download_from_discovery starts.
MetaReadBlocks ==
  /\ topology = "discovery"
  /\ cpc \in {"meta_session", "meta_reply"}
  /\ cpc' = "meta_read_blocked"
  /\ UNCHANGED <<topology, storeVars, wireVars, registryVars, discoveryVars, filename, result, meta, tstate, aes_key,
                 encrypted_key, sem, waiters, chunks, outfile, opened, hashobj, widx, copen,
                 crd, c2s, s2c, serverVars>>

\* download_single_chunk: the peer accepted the connection and never answers;
\* the task stays in reader.read() inside the "async with semaphore" block
TaskReadBlocks(i) ==
  /\ topology = "discovery"
  /\ cpc = "wait"
  /\ tstate[i] \in {"await_session", "await_chunk"}
  /\ tstate' = [tstate EXCEPT ![i] = "read_blocked"]
  /\ UNCHANGED <<topology, storeVars, wireVars, registryVars, discoveryVars, filename, cpc, result, meta, aes_key,
                 encrypted_key, sem, waiters, chunks, outfile, opened, hashobj, widx, copen,
                 crd, c2s, s2c, serverVars>>

\* a plausible slip: gather returns as soon as one task has failed
gather_returns_FirstFailure ==
  (\E i \in Tasks : tstate[i] = "failed") \/ (\A i \in Tasks : Settled(i))

\* asyncio.gather(*tasks) returns when every task has returned
gather_returns == \A i \in Tasks : Settled(i)

\* a plausible slip: any(results)
all_results_Any == Tasks = {} \/ (\E i \in Tasks : tstate[i] = "ok")

\* all(results)
all_results == \A i \in Tasks : tstate[i] = "ok"

\* a plausible slip: the chunks are written in the order they arrived
write_index_Arrival(k) == IF k < Len(chunks) THEN chunks[k + 1][1] ELSE k

\* for i in range(total_chunks): the index of iteration k
write_index(k) == k

\* a plausible slip: the digests are not compared
hash_matches_Always(calculated_hash, file_hash) == TRUE

\* calculated_hash == file_hash
hash_matches(calculated_hash, file_hash) == calculated_hash = file_hash

InChunks(i) == \E k \in 1..Len(chunks) : chunks[k][1] = i
ChunkOf(i) == chunks[CHOOSE k \in 1..Len(chunks) : chunks[k][1] = i][2]

\* connect_to_peer: gather has returned; fail when a chunk failed, else open
\* the output file for writing
GatherDone ==
  /\ cpc = "wait"
  /\ gather_returns
  /\ IF all_results
     THEN /\ cpc' = "write"
          /\ outfile' = [exists |-> TRUE, bytes |-> <<>>]
          /\ opened' = TRUE
          /\ UNCHANGED result
     ELSE /\ cpc' = "done"
          /\ result' = "False"
          /\ UNCHANGED <<outfile, opened>>
  /\ UNCHANGED <<topology, storeVars, wireVars, registryVars, discoveryVars, filename, meta, tstate, aes_key, encrypted_key, sem,
                 waiters, chunks, hashobj, widx, copen, crd, c2s, s2c, serverVars>>

\* connect_to_peer: one iteration of the reassembly loop
WriteChunk ==
  /\ cpc = "write"
  /\ widx < meta.total_chunks
  /\ LET i == write_index(widx) IN
       IF InChunks(i)
       THEN /\ outfile' = [outfile EXCEPT !.bytes = @ \o ChunkOf(i)]
            /\ hashobj' = hashobj \o ChunkOf(i)
            /\ widx' = widx + 1
            /\ UNCHANGED <<cpc, result>>
       ELSE /\ cpc' = "done"
            /\ result' = "False"
            /\ UNCHANGED <<outfile, hashobj, widx>>
  /\ UNCHANGED <<topology, storeVars, wireVars, registryVars, discoveryVars, filename, meta, tstate, aes_key, encrypted_key, sem,
                 waiters, chunks, opened, copen, crd, c2s, s2c, serverVars>>

\* a plausible slip: a file that failed verification is removed
after_verify_Removes(file, verified) == IF verified THEN file ELSE NoFile

\* the file at output_path after the comparison of the digests: both
\* branches only print and return
after_verify(file, verified) == file

\* connect_to_peer: the loop is over, the digests are compared
Verify ==
  /\ cpc = "write"
  /\ widx >= meta.total_chunks
  /\ cpc' = "done"
  /\ result' = IF hash_matches(sha256(hashobj), meta.hash) THEN "True" ELSE "False"
  /\ outfile' = after_verify(outfile, hash_matches(sha256(hashobj), meta.hash))
  /\ UNCHANGED <<topology, storeVars, wireVars, registryVars, discoveryVars, filename, meta, tstate, aes_key, encrypted_key, sem,
                 waiters, chunks, opened, hashobj, widx, copen, crd,
                 c2s, s2c, serverVars>>

----------------------------------------------------------------------------
(* Peer server (peer/server.py) *)

\* what a remote client may send as the first frame of a connection
RemoteHelloFrames ==
  {EOF,
   Plain(<<"GET", "|", "f.bin", "|", "0">>),
   aes_encrypt(1, <<"META", "|", "f.bin">>, NoDigest),
   Plain(<<HELLO>>),
   Plain(<<HELLO, "|", "idA">>),
   Plain(<<HELLO, "|", "idA", "|", "junk">>),
   Plain(<<HELLO, "|", "idA", "|", "pemA", "|", "x">>)}
    \cup {Plain(<<HELLO, "|", id, "|", pem>>) : id \in {"idA", "idB"}, pem \in {"pemA", "pemB"}}

\* what a remote client may send once the server holds session key k
RemoteRequests(k) ==
  {EOF,
   Plain(<<"META", "|", "f.bin">>),
   aes_encrypt(k + 100, <<"META", "|", "f.bin">>, NoDigest),
   Tampered(aes_encrypt(k, <<"META", "|", "f.bin">>, NoDigest))}
    \cup {aes_encrypt(k, body, NoDigest) :
            body \in {<<"META", "|", "f.bin">>, <<"META", "|", "nope">>, <<"META">>,
                      <<"GET", "|", "f.bin", "|", "0">>, <<"GET", "|", "f.bin", "|", "2">>,
                      <<"GET", "|", "f.bin", "|", "3">>, <<"GET", "|", "nope", "|", "0">>,
                      <<"GET", "|", "f.bin">>, <<"GET", "|", "f.bin", "|", "x">>,
                      <<"DONE">>, <<"PING">>}}

\* what reader.read() of the server can return on connection c: the next
\* unread frame of this client or its end of stream, or any remote frame
ServerInput(c, remote) ==
  IF topology = "local"
  THEN IF srd[c] < Len(c2s[c]) THEN {c2s[c][srd[c] + 1]}
       ELSE IF Len(c2s[c]) > 0 /\ ~copen[c] THEN {EOF} ELSE {}
  ELSE remote

\* a plausible slip: a HELLO whose peer_id is not the id of its key is refused
handle_peer_VerifiesId(data, new_key) ==
  LET fields == split(raw(data), 2)
      public_key_pem == fields[3]
      is_pem == Len(public_key_pem) = 1 /\ ValidPem(public_key_pem[1])
      pem_bytes == PemBytes(PemName(public_key_pem[1]))
      peer_public_key == load_pem_public_key(pem_bytes)
      wrapped == encrypt_session_key(pem_bytes, new_key)
  IN  IF ~startswith(raw(data), HELLO)
      THEN [outcome |-> "closed", keys |-> 0, reply |-> <<>>]
      ELSE IF Len(fields) # 3 \/ ~is_pem
      THEN [outcome |-> "raised", keys |-> 0, reply |-> <<>>]
      ELSE IF fields[2] # <<get_peer_id(peer_public_key)>>
      THEN [outcome |-> "closed", keys |-> 0, reply |-> <<>>]
      ELSE IF wrapped.raised
      THEN [outcome |-> "raised", keys |-> 1, reply |-> <<>>]
      ELSE [outcome |-> "session", keys |-> 1,
            reply |-> <<SessionFrame(wrapped.blob)>>]

\* handle_peer(reader, writer) on the data of its first read, new_key being
\* what generate_aes_key() returns.  outcome "closed": writer.close() and
\* return; "raised": an exception leaves the coroutine; "session": SESSION was
\* written and serve_file runs.  keys: number of AES keys generated.
handle_peer(data, new_key) ==
  LET fields == split(raw(data), 2)
      public_key_pem == fields[3]
      is_pem == Len(public_key_pem) = 1 /\ ValidPem(public_key_pem[1])
      pem_bytes == PemBytes(PemName(public_key_pem[1]))
      peer_public_key == load_pem_public_key(pem_bytes)
      wrapped == encrypt_session_key(pem_bytes, new_key)
  IN  IF ~startswith(raw(data), HELLO)
      THEN [outcome |-> "closed", keys |-> 0, reply |-> <<>>]
      ELSE IF Len(fields) # 3 \/ ~is_pem
      THEN [outcome |-> "raised", keys |-> 0, reply |-> <<>>]
      ELSE IF wrapped.raised
      THEN [outcome |-> "raised", keys |-> 1, reply |-> <<>>]
      ELSE [outcome |-> "session", keys |-> 1,
            reply |-> <<SessionFrame(wrapped.blob)>>]

\* a plausible slip: DONE is not recognised
is_done_Never(request) == FALSE

\* elif request == "DONE"
is_done(request) == request = <<"DONE">>

\* one iteration of the loop of serve_file on the frame it read.  outcome
\* "break": the loop ends, the writer stays as it is; "closed": writer.close()
\* and the loop ends (DONE, or the except clause); "continue": next iteration.
serve_request(key, encrypted_message) ==
  LET plain == aes_decrypt(key, encrypted_message)
      request == plain.body
      meta_parts == split(request, 1)
      get_parts == split(request, -1)
      reply(body, digest) == <<aes_encrypt(key, body, digest)>>
  IN  IF encrypted_message = EOF THEN [outcome |-> "break", reply |-> <<>>]
      ELSE IF plain.raised THEN [outcome |-> "closed", reply |-> <<>>]
      ELSE IF startswith(request, "META")
      THEN IF Len(meta_parts) # 2 THEN [outcome |-> "closed", reply |-> <<>>]
           ELSE IF ~exists(meta_parts[2])
           THEN [outcome |-> "continue", reply |-> reply(ErrorBody(meta_parts[2]), NoDigest)]
           ELSE LET m == chunk_metadata(meta_parts[2]) IN
                [outcome |-> "continue",
                 reply |-> reply(MetaBody(m.filename, m.size, m.chunksize, m.chunks),
                                 m.hash.of)]
      ELSE IF startswith(request, "GET")
      THEN IF Len(get_parts) # 3 \/ Len(get_parts[3]) # 1 \/ ~IsInt(get_parts[3][1])
           THEN [outcome |-> "closed", reply |-> <<>>]
           ELSE IF ~exists(get_parts[2])
           THEN [outcome |-> "continue", reply |-> reply(ErrorBody(get_parts[2]), NoDigest)]
           ELSE [outcome |-> "continue",
                 reply |-> reply(ChunkBody(int(get_parts[3][1]),
                                           read_chunk(FileBytes(get_parts[2]),
                                                      int(get_parts[3][1]))),
                                 NoDigest)]
      ELSE IF is_done(request) THEN [outcome |-> "closed", reply |-> <<>>]
      ELSE [outcome |-> "continue", reply |-> <<>>]

RECURSIVE RequestsRead(_)
\* number of frames the server has read on the connections of set cs
RequestsRead(cs) ==
  IF cs = {} THEN 0
  ELSE LET c == CHOOSE x \in cs : TRUE
       IN  srd[c] + RequestsRead(cs \ {c})

\* connections of remote clients are numbered in the order they are made:
\* the number of the next one (-1 when MaxServerConns were made)
NextConn ==
  IF \A c \in ServerConns : handler[c] # "none" THEN -1
  ELSE CHOOSE c \in ServerConns :
         handler[c] = "none" /\ \A d \in ServerConns : d < c => handler[d] # "none"

\* start_server: a connection is accepted and handle_peer starts on it
Accept(c) ==
  /\ handler[c] = "none"
  /\ \/ topology = "remote_client" /\ c = NextConn
     \/ topology = "local" /\ Len(c2s[c]) > 0
  /\ handler' = [handler EXCEPT ![c] = "handle_peer"]
  /\ sopen' = [sopen EXCEPT ![c] = TRUE]
  /\ UNCHANGED <<topology, storeVars, wireVars, registryVars, discoveryVars, clientVars, c2s, s2c, srd, skey, sfirst, slast, keyctr>>

\* a plausible slip: the listening server is closed, and with it every connection
close_All(open, c) == [x \in ConnIds |-> FALSE]

\* writer.close() on connection c; open: which transports are open
close(open, c) == [open EXCEPT ![c] = FALSE]

\* handle_peer reads the first frame.  When an exception leaves the handler
\* the code has not closed the writer; whether the transport is closed then
\* is up to the asyncio version that runs it.
HandlePeer(c) ==
  /\ handler[c] = "handle_peer"
  /\ topology = "remote_client" => RequestsRead(ConnIds) < MaxRequests
  /\ \E data \in ServerInput(c, RemoteHelloFrames), runtime_closes \in BOOLEAN :
       LET r == handle_peer(data, generate_aes_key(keyctr)) IN
       /\ r.outcome # "raised" => runtime_closes
       /\ sfirst' = [sfirst EXCEPT ![c] = data]
       /\ srd' = [srd EXCEPT ![c] = @ + 1]
       /\ keyctr' = keyctr + r.keys
       /\ skey' = [skey EXCEPT ![c] = IF r.keys > 0 THEN generate_aes_key(keyctr) ELSE @]
       /\ s2c' = [s2c EXCEPT ![c] = @ \o r.reply]
       /\ handler' = [handler EXCEPT ![c] =
                        CASE r.outcome = "closed" -> "returned"
                          [] r.outcome = "raised" -> "raised"
                          [] OTHER -> "serve_file"]
       /\ sopen' = IF r.outcome = "closed" \/ (r.outcome = "raised" /\ runtime_closes)
                   THEN close(sopen, c) ELSE sopen
  /\ UNCHANGED <<topology, storeVars, wireVars, registryVars, discoveryVars, clientVars, c2s, slast>>

\* serve_file(reader, writer, aes_key) is a coroutine of the module: a caller
\* that holds a session key for a connection runs it on that connection
ServeFileCall(c) ==
  /\ topology = "remote_client"
  /\ c = NextConn
  /\ handler[c] = "none"
  /\ handler' = [handler EXCEPT ![c] = "serve_file"]
  /\ sopen' = [sopen EXCEPT ![c] = TRUE]
  /\ skey' = [skey EXCEPT ![c] = generate_aes_key(keyctr)]
  /\ keyctr' = keyctr + 1
  /\ UNCHANGED <<topology, storeVars, wireVars, registryVars, discoveryVars, clientVars, c2s, s2c, srd, sfirst, slast>>

\* serve_file: one frame is read and served
ServeFile(c) ==
  /\ handler[c] = "serve_file"
  /\ topology = "remote_client" => RequestsRead(ConnIds) < MaxRequests
  /\ \E msg \in ServerInput(c, RemoteRequests(skey[c])) :
       LET r == serve_request(skey[c], msg) IN
       /\ slast' = [slast EXCEPT ![c] = msg]
       /\ srd' = [srd EXCEPT ![c] = @ + 1]
       /\ s2c' = [s2c EXCEPT ![c] = @ \o r.reply]
       /\ handler' = [handler EXCEPT ![c] = IF r.outcome = "continue" THEN @ ELSE "returned"]
       /\ sopen' = IF r.outcome = "closed" THEN close(sopen, c) ELSE sopen
  /\ UNCHANGED <<topology, storeVars, wireVars, registryVars, discoveryVars, clientVars, c2s, skey, sfirst, keyctr>>

----------------------------------------------------------------------------
(* Discovery registry (peer/main.py) *)

\* index of the item of peer_id in the dict, 0 when it has none
Lookup(peers, peer_id) ==
  IF \E k \in 1..Len(peers) : peers[k].peer_id = peer_id
  THEN CHOOSE k \in 1..Len(peers) : peers[k].peer_id = peer_id
  ELSE 0

\* del PEERS[peer_id] of the item at index k
Delete(peers, k) == SubSeq(peers, 1, k - 1) \o SubSeq(peers, k + 1, Len(peers))

InList(x, list) == \E k \in 1..Len(list) : list[k] = x

\* a plausible slip: a registration first drops the entries that are stale
register_peer_Sweeps(peers, data, host, t) ==
  LET kept == SelectSeq(peers, LAMBDA info : t - info.last_seen <= TIL)
      ip0 == IF data.ip \notin {NoIp, ""} THEN data.ip ELSE host
      client_ip == IF ip0 \in {"127.0.0.1", "localhost"} THEN host ELSE ip0
      info == [peer_id |-> data.peer_id, ip |-> client_ip, port |-> data.port,
               public_key |-> data.public_key, files |-> data.files, last_seen |-> t]
      k == Lookup(kept, data.peer_id)
  IN  [peers |-> IF k = 0 THEN Append(kept, info) ELSE [kept EXCEPT ![k] = info],
       resp  |-> [op |-> "register_peer", peer_id |-> data.peer_id, file |-> NoFilter,
                  status |-> "registered", ip |-> client_ip, peers |-> <<>>]]

\* a plausible slip: a second registration adds its files to the stored ones
register_peer_Union(peers, data, host, t) ==
  LET k == Lookup(peers, data.peer_id)
      info == [peer_id |-> data.peer_id, ip |-> host, port |-> data.port,
               public_key |-> data.public_key,
               files |-> IF k = 0 THEN data.files ELSE peers[k].files \o data.files,
               last_seen |-> t]
  IN  [peers |-> IF k = 0 THEN Append(peers, info) ELSE [peers EXCEPT ![k] = info],
       resp  |-> [op |-> "register_peer", peer_id |-> data.peer_id, file |-> NoFilter,
                  status |-> "registered", ip |-> host, peers |-> <<>>]]

\* register_peer(request, data) at time t, host being request.client.host
register_peer(peers, data, host, t) ==
  LET ip0 == IF data.ip \notin {NoIp, ""} THEN data.ip ELSE host
      client_ip == IF ip0 \in {"127.0.0.1", "localhost"} THEN host ELSE ip0
      info == [peer_id |-> data.peer_id, ip |-> client_ip, port |-> data.port,
               public_key |-> data.public_key, files |-> data.files, last_seen |-> t]
      k == Lookup(peers, data.peer_id)
  IN  [peers |-> IF k = 0 THEN Append(peers, info) ELSE [peers EXCEPT ![k] = info],
       resp  |-> [op |-> "register_peer", peer_id |-> data.peer_id, file |-> NoFilter,
                  status |-> "registered", ip |-> client_ip, peers |-> <<>>]]

\* a plausible slip: the heartbeat of an entry that is older than the TTL is
\* refused
heartbeat_Expires(peers, peer_id, t) ==
  LET k == Lookup(peers, peer_id) IN
  IF k # 0 /\ t - peers[k].last_seen <= TIL
  THEN [peers |-> [peers EXCEPT ![k].last_seen = t],
        resp  |-> [op |-> "heartbeat", peer_id |-> peer_id, file |-> NoFilter,
                   status |-> "heartbeat received", ip |-> "", peers |-> <<>>]]
  ELSE [peers |-> peers,
        resp  |-> [op |-> "heartbeat", peer_id |-> peer_id, file |-> NoFilter,
                   status |-> "peer not found", ip |-> "", peers |-> <<>>]]

\* a plausible slip: a heartbeat refreshes every entry
heartbeat_TouchesAll(peers, peer_id, t) ==
  LET k == Lookup(peers, peer_id) IN
  IF k # 0
  THEN [peers |-> [j \in 1..Len(peers) |-> [peers[j] EXCEPT !.last_seen = t]],
        resp  |-> [op |-> "heartbeat", peer_id |-> peer_id, file |-> NoFilter,
                   status |-> "heartbeat received", ip |-> "", peers |-> <<>>]]
  ELSE [peers |-> peers,
        resp  |-> [op |-> "heartbeat", peer_id |-> peer_id, file |-> NoFilter,
                   status |-> "peer not found", ip |-> "", peers |-> <<>>]]

\* a plausible slip: a heartbeat of an unknown peer creates an entry
heartbeat_Creates(peers, peer_id, t) ==
  [peers |-> Append(peers, [peer_id |-> peer_id, ip |-> "", port |-> 0, public_key |-> "",
                            files |-> <<>>, last_seen |-> t]),
   resp  |-> [op |-> "heartbeat", peer_id |-> peer_id, file |-> NoFilter,
              status |-> "heartbeat received", ip |-> "", peers |-> <<>>]]

\* heartbeat(peer_id) at time t
heartbeat(peers, peer_id, t) ==
  LET k == Lookup(peers, peer_id) IN
  IF k # 0
  THEN [peers |-> [peers EXCEPT ![k].last_seen = t],
        resp  |-> [op |-> "heartbeat", peer_id |-> peer_id, file |-> NoFilter,
                   status |-> "heartbeat received", ip |-> "", peers |-> <<>>]]
  ELSE [peers |-> peers,
        resp  |-> [op |-> "heartbeat", peer_id |-> peer_id, file |-> NoFilter,
                   status |-> "peer not found", ip |-> "", peers |-> <<>>]]

\* a plausible slip: entries never count as stale
stale_Never(info, t) == FALSE

\* now - info["last_seen"] > TIL
stale(info, t) == t - info.last_seen > TIL

\* what get_peers reports of an item
Listed(info) ==
  [peer_id |-> info.peer_id, ip |-> info.ip, port |-> info.port, files |-> info.files]

RECURSIVE get_peers_loop(_, _, _, _, _)
\* the loop "for peer_id, info in PEERS.items()" from the item at index k on.
\* Deleting an item changes the size of the dict that is being iterated, so
\* the iterator raises RuntimeError when it is asked for the next item.
get_peers_loop(peers, k, file, t, active_peers) ==
  IF k > Len(peers)
  THEN [raised |-> FALSE, peers |-> peers, active_peers |-> active_peers]
  ELSE IF stale(peers[k], t)
  THEN [raised |-> TRUE, peers |-> Delete(peers, k), active_peers |-> active_peers]
  ELSE get_peers_loop(peers, k + 1, file, t,
                      IF file = NoFilter \/ InList(file, peers[k].files)
                      THEN Append(active_peers, Listed(peers[k]))
                      ELSE active_peers)

\* get_peers(file) at time t
get_peers(peers, file, t) ==
  LET r == get_peers_loop(peers, 1, file, t, <<>>) IN
  [peers |-> r.peers,
   resp  |-> IF r.raised
             THEN [op |-> "get_peers", peer_id |-> "", file |-> file,
                   status |-> "RuntimeError", ip |-> "", peers |-> <<>>]
             ELSE [op |-> "get_peers", peer_id |-> "", file |-> file,
                   status |-> "peers", ip |-> "", peers |-> r.active_peers]]

\* the requests peers send to the registry
RegisterRequests ==
  {[peer_id |-> "p1", public_key |-> "pk1", port |-> 9000, files |-> <<"f.bin">>,
    ip |-> NoIp],
   [peer_id |-> "p1", public_key |-> "pk1b", port |-> 9001, files |-> <<"g.bin">>,
    ip |-> "10.0.0.5"],
   [peer_id |-> "p2", public_key |-> "pk2", port |-> 9000,
    files |-> <<"f.bin", "g.bin">>, ip |-> "127.0.0.1"]}
HeartbeatIds == {"p1", "p3"}
FileFilters == {NoFilter, "f.bin"}
ClientHost == "192.168.1.9"
ClockSteps == {1, TIL}

RegistryStep(r) ==
  /\ topology = "registry"
  /\ rsteps < MaxRegistrySteps
  /\ rsteps' = rsteps + 1
  /\ PEERS' = r.peers
  /\ resp' = r.resp
  /\ UNCHANGED <<topology, storeVars, wireVars, clientVars, c2s, s2c, serverVars, discoveryVars, reg_success,
                 now,
                 handlers>>

RegisterPeer == \E data \in RegisterRequests : RegistryStep(register_peer(PEERS, data, ClientHost, now))

Heartbeat == \E peer_id \in HeartbeatIds : RegistryStep(heartbeat(PEERS, peer_id, now))

GetPeers == \E file \in FileFilters : RegistryStep(get_peers(PEERS, file, now))

\* time passes between two requests
Tick ==
  /\ topology = "registry"
  /\ rsteps < MaxRegistrySteps
  /\ rsteps' = rsteps + 1
  /\ \E d \in ClockSteps : now' = now + d
  /\ UNCHANGED <<topology, storeVars, wireVars, clientVars, c2s, s2c, serverVars, discoveryVars, reg_success,
                 PEERS, resp,
                 handlers>>

----------------------------------------------------------------------------
(* The registry with several requests received (peer/main.py).  Every
   handler is a coroutine on the one event loop of the server; it is modelled
   statement by statement. *)

HandlerIds == 1..MaxHandlers

\* the PEERS dict after p1 registered at time 0 and p2 at time 50
TwoPeers ==
  LET r1 == CHOOSE data \in RegisterRequests : data.peer_id = "p1" /\ data.ip = NoIp
      r2 == CHOOSE data \in RegisterRequests : data.peer_id = "p2"
  IN  register_peer(register_peer(<<>>, r1, ClientHost, 0).peers, r2, ClientHost, 50).peers

NoData == [peer_id |-> "", public_key |-> "", port |-> 0, files |-> <<>>, ip |-> NoIp]

\* the requests that are received: two registrations (p1 anew, p3 for the
\* first time), a heartbeat of p1 and a query
HandlerRequests ==
  {[op |-> "register_peer", data |-> data, peer_id |-> data.peer_id, file |-> NoFilter] :
     data \in {[peer_id |-> "p1", public_key |-> "pk1b", port |-> 9001,
                files |-> <<"g.bin">>, ip |-> "10.0.0.5"],
               [peer_id |-> "p3", public_key |-> "pk3", port |-> 9000,
                files |-> <<"f.bin">>, ip |-> NoIp]}}
    \cup {[op |-> "heartbeat", data |-> NoData, peer_id |-> "p1", file |-> NoFilter],
          [op |-> "get_peers", data |-> NoData, peer_id |-> "", file |-> NoFilter]}

\* the coroutine of a request: pc is the statement it stands at, start the
\* PEERS dict it found when it began, k and size the state of the iterator of
\* PEERS.items(), now_ and active_peers the locals of get_peers
Handler(pc, req, start, k, size, t, active_peers, response) ==
  [pc |-> pc, req |-> req, start |-> start, k |-> k, size |-> size, now_ |-> t,
   active_peers |-> active_peers, resp |-> response]

NoHandler == Handler("idle", [op |-> "none", data |-> NoData, peer_id |-> "", file |-> NoFilter],
                     <<>>, 0, 0, 0, <<>>, NoResponse)
Received(req) == [NoHandler EXCEPT !.pc = "received", !.req = req]

\* the statements a started handler can stand at
Running == {"register", "hb_check", "hb_update", "gp_init", "gp_loop"}

\* a plausible slip: the handlers run as threads, any of them at any time
holds_loop_Never(pc) == FALSE

\* a coroutine that stands at pc keeps the event loop: the handlers contain
\* no await, so from their first statement to their return nothing else runs
holds_loop(pc) == pc \in Running

\* the event loop can run handler h
Scheduled(h) == \A g \in HandlerIds \ {h} : ~holds_loop(handlers[g].pc)

Response(req, status, ip, peers) ==
  [op |-> req.op, peer_id |-> req.peer_id, file |-> req.file, status |-> status,
   ip |-> ip, peers |-> peers]

\* the event loop starts the coroutine of request h
HandlerStart(h) ==
  /\ topology = "handlers"
  /\ handlers[h].pc = "received"
  /\ Scheduled(h)
  /\ handlers' = [handlers EXCEPT ![h].start = PEERS,
                                   ![h].pc = CASE handlers[h].req.op = "register_peer" -> "register"
                                               [] handlers[h].req.op = "heartbeat" -> "hb_check"
                                               [] OTHER -> "gp_init"]
  /\ UNCHANGED <<topology, storeVars, wireVars, clientVars, c2s, s2c, serverVars, discoveryVars, reg_success,
                 PEERS, now,
                 resp, rsteps>>

\* the next statement of handler h
HandlerStep(h) ==
  LET hr == handlers[h]
      req == hr.req
      done(response) == [hr EXCEPT !.pc = "done", !.resp = response]
      i == Lookup(PEERS, req.peer_id)
  IN
  /\ topology = "handlers"
  /\ hr.pc \in Running
  /\ Scheduled(h)
  /\ CASE hr.pc = "register" ->
             \* lines 23-39
             LET r == register_peer(PEERS, req.data, ClientHost, now) IN
             /\ PEERS' = r.peers
             /\ handlers' = [handlers EXCEPT ![h] = done(r.resp)]
       [] hr.pc = "hb_check" ->
             \* if peer_id in PEERS
             /\ handlers' = [handlers EXCEPT ![h] =
                               IF i # 0 THEN [hr EXCEPT !.pc = "hb_update"]
                               ELSE done(Response(req, "peer not found", "", <<>>))]
             /\ UNCHANGED PEERS
       [] hr.pc = "hb_update" ->
             \* PEERS[peer_id]["last_seen"] = time.time(): KeyError without the item
             IF i = 0
             THEN /\ handlers' = [handlers EXCEPT ![h] = done(Response(req, "KeyError", "", <<>>))]
                  /\ UNCHANGED PEERS
             ELSE /\ PEERS' = [PEERS EXCEPT ![i].last_seen = now]
                  /\ handlers' = [handlers EXCEPT ![h] =
                                    done(Response(req, "heartbeat received", "", <<>>))]
       [] hr.pc = "gp_init" ->
             \* now = time.time(); active_peers = []; iter(PEERS.items())
             /\ handlers' = [handlers EXCEPT ![h] =
                               [hr EXCEPT !.pc = "gp_loop", !.now_ = now, !.active_peers = <<>>,
                                          !.k = 1, !.size = Len(PEERS)]]
             /\ UNCHANGED PEERS
       [] hr.pc = "gp_loop" ->
             \* the iterator raises when the size of the dict has changed since
             \* it was created, else it yields the next item or ends the loop
             IF Len(PEERS) # hr.size
             THEN /\ handlers' = [handlers EXCEPT ![h] =
                                    done(Response(req, "RuntimeError", "", <<>>))]
                  /\ UNCHANGED PEERS
             ELSE IF hr.k > Len(PEERS)
             THEN /\ handlers' = [handlers EXCEPT ![h] =
                                    done(Response(req, "peers", "", hr.active_peers))]
                  /\ UNCHANGED PEERS
             ELSE IF stale(PEERS[hr.k], hr.now_)
             THEN /\ PEERS' = Delete(PEERS, hr.k)
                  /\ UNCHANGED handlers
             ELSE /\ handlers' = [handlers EXCEPT ![h] =
                                    [hr EXCEPT !.k = @ + 1,
                                               !.active_peers =
                                                 IF req.file = NoFilter
                                                    \/ InList(req.file, PEERS[hr.k].files)
                                                 THEN Append(@, Listed(PEERS[hr.k])) ELSE @]]
                  /\ UNCHANGED PEERS
  /\ UNCHANGED <<topology, storeVars, wireVars, clientVars, c2s, s2c, serverVars, discoveryVars, reg_success,
                 now, resp,
                 rsteps>>

----------------------------------------------------------------------------
(* A peer in full mode (peer/runner.py) and the registry it talks to: main
   calls register_peer once, then heartbeat_loop sends a heartbeat every
   interval seconds for ever.  A request that does not reach the registry
   raises in the httpx client, at once or after its timeout.  Other peers
   query the registry in between. *)

RunnerId == "p1"
\* the payload of runner.register_peer: no ip field
RunnerData == CHOOSE data \in RegisterRequests : data.peer_id = RunnerId /\ data.ip = NoIp
HEARTBEAT_INTERVAL == 30
HTTP_TIMEOUT == 10

\* the request raised an exception in the runner
Lost == [NoResponse EXCEPT !.status = "exception"]

\* a plausible slip: the loop registers again when the registry does not know
\* the peer
after_heartbeat_Reregisters(peers, response, t) ==
  IF response.status = "peer not found"
  THEN register_peer(peers, RunnerData, ClientHost, t).peers
  ELSE peers

\* PEERS after an iteration of heartbeat_loop got response: the loop prints
\* the response and sleeps
after_heartbeat(peers, response, t) == peers

\* main: success = await register_peer(...); "Continuing anyway..." when it
\* failed
RunnerRegister ==
  /\ topology = "runner"
  /\ reg_success = "none"
  /\ rsteps' = rsteps + 1
  /\ \E delivered \in BOOLEAN :
       LET r == register_peer(PEERS, RunnerData, ClientHost, now) IN
       IF delivered
       THEN /\ PEERS' = r.peers
            /\ resp' = r.resp
            /\ reg_success' = "True"
       ELSE /\ resp' = Lost
            /\ reg_success' = "False"
            /\ UNCHANGED PEERS
  /\ UNCHANGED <<topology, storeVars, wireVars, clientVars, c2s, s2c, serverVars, discoveryVars, now,
                 handlers>>

\* one iteration of heartbeat_loop: the GET /heartbeat request, the print of
\* its response or of its exception, asyncio.sleep(interval)
RunnerHeartbeat ==
  /\ topology = "runner"
  /\ reg_success # "none"
  /\ rsteps < MaxRegistrySteps
  /\ rsteps' = rsteps + 1
  /\ \E delivered \in BOOLEAN :
       LET r == heartbeat(PEERS, RunnerId, now) IN
       IF delivered
       THEN /\ PEERS' = after_heartbeat(r.peers, r.resp, now)
            /\ resp' = r.resp
            /\ now' = now + HEARTBEAT_INTERVAL
       ELSE /\ resp' = Lost
            /\ \E waited \in {0, HTTP_TIMEOUT} : now' = now + waited + HEARTBEAT_INTERVAL
            /\ UNCHANGED PEERS
  /\ UNCHANGED <<topology, storeVars, wireVars, clientVars, c2s, s2c, serverVars, discoveryVars, handlers,
                 reg_success>>

\* another peer queries the registry
RunnerQuery ==
  /\ topology = "runner"
  /\ reg_success # "none"
  /\ rsteps < MaxRegistrySteps
  /\ rsteps' = rsteps + 1
  /\ \E file \in FileFilters :
       LET r == get_peers(PEERS, file, now) IN
       /\ PEERS' = r.peers
       /\ resp' = r.resp
  /\ UNCHANGED <<topology, storeVars, wireVars, clientVars, c2s, s2c, serverVars, discoveryVars, now,
                 handlers, reg_success>>

----------------------------------------------------------------------------
(* download_from_discovery (peer/client.py) *)

\* the peers list of a registry response with n entries, in the order the
\* registry returned them
Candidates(n) ==
  [k \in 1..n |-> [peer_id |-> n + 1 - k, ip |-> "10.0.0.5", port |-> 9000 + (n + 1 - k)]]

\* what the GET /peers request of download_from_discovery can yield
DiscoveryResponses ==
  {[raised |-> TRUE, peers |-> <<>>]}
    \cup {[raised |-> FALSE, peers |-> Candidates(n)] : n \in 0..MaxCandidates}

\* a plausible slip: the loop does not stop at a successful download
stops_on_Never(success) == FALSE

\* if success: return True
stops_on(success) == success = "True"

\* connect_to_peer(ip, port, filename, output_dir) is called for peer: its
\* locals start afresh and it runs up to its first await
CallConnectToPeer(peer) ==
  /\ dtried' = Append(dtried, peer)
  /\ cpc' = "start"
  /\ result' = "pending"
  /\ meta' = NoMeta
  /\ tstate' = [i \in ChunkIdx |-> "none"]
  /\ aes_key' = [x \in ConnIds |-> 0]
  /\ encrypted_key' = [x \in ConnIds |-> NoBlob]
  /\ sem' = 0
  /\ waiters' = <<>>
  /\ chunks' = <<>>
  /\ opened' = FALSE
  /\ hashobj' = <<>>
  /\ widx' = 0
  /\ copen' = [x \in ConnIds |-> FALSE]
  /\ crd' = [x \in ConnIds |-> 0]
  /\ outfile0' = outfile
  /\ UNCHANGED <<filename, outfile>>

\* the registry response arrives; the loop starts with the first peer
DiscoveryQuery ==
  /\ topology = "discovery"
  /\ dpc = "query"
  /\ \E r \in DiscoveryResponses :
       IF r.raised \/ r.peers = <<>>
       THEN /\ dpc' = "done"
            /\ dresult' = "False"
            /\ UNCHANGED <<clientVars, outfile0, dpeers, dtried>>
       ELSE /\ dpc' = "try"
            /\ dpeers' = r.peers
            /\ CallConnectToPeer(r.peers[1])
            /\ UNCHANGED dresult
  /\ UNCHANGED <<topology, storeVars, wireVars, c2s, s2c, serverVars, registryVars>>

\* connect_to_peer has returned: return True, go on with the next peer, or
\* return False after the last one
DiscoveryNext ==
  /\ topology = "discovery"
  /\ dpc = "try"
  /\ cpc = "done"
  /\ IF stops_on(result)
     THEN /\ dpc' = "done"
          /\ dresult' = "True"
          /\ UNCHANGED <<clientVars, outfile0, dtried>>
     ELSE IF Len(dtried) < Len(dpeers)
     THEN /\ CallConnectToPeer(dpeers[Len(dtried) + 1])
          /\ UNCHANGED <<dpc, dresult>>
     ELSE /\ dpc' = "done"
          /\ dresult' = "False"
          /\ UNCHANGED <<clientVars, outfile0, dtried>>
  /\ UNCHANGED <<topology, storeVars, wireVars, c2s, s2c, serverVars, registryVars, dpeers>>

----------------------------------------------------------------------------
(* The chunk store on its own (peer/chunk_manager.py): the metadata of the
   shared file is computed, then its chunks are read one index after the
   other, one index past the last chunk included *)

StoreGetFileMetadata ==
  /\ topology = "chunk_store"
  /\ store_meta = NoStoreMeta
  /\ store_meta' = chunk_metadata(SharedName)
  /\ UNCHANGED <<topology, wireVars, chunk_size, shared_bytes, store_chunks, clientVars, c2s, s2c,
                 serverVars, registryVars, discoveryVars>>

StoreReadChunk ==
  /\ topology = "chunk_store"
  /\ store_meta # NoStoreMeta
  /\ Len(store_chunks) <= store_meta.chunks
  /\ store_chunks' = Append(store_chunks, read_chunk(FileBytes(SharedName), Len(store_chunks)))
  /\ UNCHANGED <<topology, wireVars, chunk_size, shared_bytes, store_meta, clientVars, c2s, s2c,
                 serverVars, registryVars, discoveryVars>>

----------------------------------------------------------------------------
(* Specification *)

Init ==
  /\ topology \in {"remote_peer", "remote_client", "local", "registry", "handlers",
                   "runner", "discovery", "chunk_store", "fetch"}
  /\ chunk_size \in (IF topology = "chunk_store" THEN 1..MaxChunkSize ELSE {2})
  /\ shared_bytes \in (IF topology = "chunk_store"
                        THEN {SubSeq(Alphabet, 1, n) : n \in 0..MaxFileSize}
                        ELSE {FileOfChunks(3)})
  /\ store_meta = NoStoreMeta
  /\ store_chunks = <<>>
  /\ filename \in (IF topology = "local" THEN FileNames ELSE {SharedName})
  /\ cpc = (IF topology \in {"registry", "handlers", "runner", "discovery", "chunk_store"}
              THEN "idle" ELSE "start")
  /\ result = "pending"
  /\ meta = NoMeta
  /\ tstate = [i \in ChunkIdx |-> "none"]
  /\ aes_key = [x \in ConnIds |-> 0]
  /\ encrypted_key = [x \in ConnIds |-> NoBlob]
  /\ sem = 0
  /\ waiters = <<>>
  /\ chunks = <<>>
  /\ outfile \in (IF topology \in {"local", "discovery"}
                   THEN {NoFile, OldFile} ELSE {NoFile})
  /\ opened = FALSE
  /\ hashobj = <<>>
  /\ widx = 0
  /\ copen = [x \in ConnIds |-> FALSE]
  /\ c2s = [x \in ConnIds |-> <<>>]
  /\ s2c = [x \in ConnIds |-> <<>>]
  /\ crd = [x \in ConnIds |-> 0]
  /\ srd = [x \in ConnIds |-> 0]
  /\ handler = [x \in ConnIds |-> "none"]
  /\ sopen = [x \in ConnIds |-> FALSE]
  /\ skey = [x \in ConnIds |-> 0]
  /\ sfirst = [x \in ConnIds |-> NoFrame]
  /\ slast = [x \in ConnIds |-> NoFrame]
  /\ keyctr = 0
  /\ PEERS = (IF topology = "handlers" THEN TwoPeers ELSE <<>>)
  /\ now \in (IF topology = "handlers" THEN {55, 70} ELSE {0})
  /\ resp = NoResponse
  /\ rsteps = 0
  /\ handlers \in (IF topology = "handlers"
                    THEN [HandlerIds -> {Received(req) : req \in HandlerRequests}]
                    ELSE {[h \in HandlerIds |-> NoHandler]})
  /\ reg_success = "none"
  /\ outfile0 = outfile
  /\ dpc = (IF topology = "discovery" THEN "query" ELSE "none")
  /\ dpeers = <<>>
  /\ dtried = <<>>
  /\ dresult = "pending"
  /\ wire = [i \in ChunkIdx |-> NoFrame]
  /\ arrived = [i \in ChunkIdx |-> "none"]

Next ==
  \/ MetaConnect
  \/ MetaConnectFails
  \/ MetaSession
  \/ MetaReply
  \/ MetaReadBlocks
  \/ Gather
  \/ \E i \in ChunkIdx : TaskResume(i)
  \/ \E i \in ChunkIdx : TaskConnect(i)
  \/ \E i \in ChunkIdx : TaskConnectFails(i)
  \/ \E i \in ChunkIdx : TaskSession(i)
  \/ \E i \in ChunkIdx : PeerWritesChunk(i)
  \/ \E i \in ChunkIdx : Deliver(i)
  \/ \E i \in ChunkIdx : TaskChunk(i)
  \/ \E i \in ChunkIdx : TaskReadBlocks(i)
  \/ GatherDone
  \/ WriteChunk
  \/ Verify
  \/ \E c \in ConnIds : Accept(c)
  \/ \E c \in ConnIds : HandlePeer(c)
  \/ \E c \in ConnIds : ServeFileCall(c)
  \/ \E c \in ConnIds : ServeFile(c)
  \/ RegisterPeer
  \/ Heartbeat
  \/ GetPeers
  \/ Tick
  \/ DiscoveryQuery
  \/ DiscoveryNext
  \/ StoreGetFileMetadata
  \/ StoreReadChunk
  \/ \E h \in HandlerIds : HandlerStart(h)
  \/ \E h \in HandlerIds : HandlerStep(h)
  \/ RunnerRegister
  \/ RunnerHeartbeat
  \/ RunnerQuery

Spec == Init /\ [][Next]_vars

\* The event loop runs every coroutine that can take a step, and the timer
\* of asyncio.wait_for fires: a step that is possible is eventually taken.
LiveSpec == Spec /\ WF_vars(Next)

----------------------------------------------------------------------------
(* Properties *)

RECURSIVE InOrder(_)
\* the chunks of the indices 0..k-1, concatenated in index order
InOrder(k) == IF k = 0 THEN <<>> ELSE InOrder(k - 1) \o ChunkOf(k - 1)

Returned(value) == cpc = "done" /\ result = value

\* C1: connect_to_peer returns True only if every chunk index was fetched,
\* the output file holds exactly the chunks concatenated in index order and
\* the digest over the written bytes equals the advertised one; whenever the
\* two digests differ after reassembly the call returns False.
C1_TrueOnlyIfVerified ==
  /\ result = "True" =>
       /\ \A i \in Tasks : InChunks(i)
       /\ outfile.exists
       /\ outfile.bytes = InOrder(meta.total_chunks)
       /\ hashobj = outfile.bytes
       /\ sha256(hashobj) = meta.hash
  /\ (cpc = "done" /\ opened /\ sha256(hashobj) # meta.hash) => result = "False"

C1_Witness ==
  /\ Returned("True")
  /\ meta.total_chunks >= 3
  /\ outfile.bytes = FileOfChunks(meta.total_chunks)

\* C2: whatever the order in which the fetches completed, the output file
\* holds the chunks written so far in ascending index order, and at the end
\* all of them.
C2_AscendingOrder ==
  opened =>
    /\ outfile.bytes = InOrder(widx)
    /\ (cpc = "done" /\ result = "True") => widx = meta.total_chunks

C2_Witness ==
  /\ Returned("True")
  /\ Len(chunks) >= 3
  /\ chunks[1][1] > chunks[2][1]

\* C3: at most MAX_CONCURRENT_CHUNKS tasks are inside download_single_chunk;
\* every other task that has not returned is inside semaphore.acquire().
C3_BoundedConcurrency ==
  /\ Cardinality(InFlight) <= MAX_CONCURRENT_CHUNKS
  /\ cpc = "wait" => \A i \in Tasks : i \in InFlight \/ i \in InAcquire \/ Settled(i)
  /\ \A i \in Tasks : tstate[i] = "waiting" =>
       \E k \in 1..Len(waiters) : waiters[k] = i

C3_Witness ==
  /\ Cardinality(InFlight) = MAX_CONCURRENT_CHUNKS
  /\ \E i \in Tasks : tstate[i] = "waiting"
  /\ \E i \in Tasks : tstate[i] = "await_chunk"

\* C4: if a chunk fetch failed the call returns False and the output file is
\* neither created nor written.
C4_FailureLeavesNoFile ==
  (\E i \in Tasks : tstate[i] = "failed") =>
    /\ ~opened
    /\ outfile = outfile0
    /\ result # "True"
    /\ cpc = "done" => result = "False"

C4_Witness ==
  /\ Returned("False")
  /\ \E i \in Tasks : tstate[i] = "failed"
  /\ \E i \in Tasks : tstate[i] = "ok"

\* C5: a task that fails leaves its siblings as they are (but for handing its
\* slot to the next waiter), and connect_to_peer returns False only when
\* every scheduled task has returned.
C5_NoSiblingAbort ==
  [][/\ \A i, j \in ChunkIdx :
          (i # j /\ tstate[i] # "failed" /\ tstate'[i] = "failed") =>
             \/ tstate'[j] = tstate[j]
             \/ tstate[j] = "waiting" /\ tstate'[j] = "woken"
     /\ \A j \in ChunkIdx :
          (tstate[j] \notin {"ok", "failed"} /\ tstate'[j] \in {"ok", "failed"}) =>
             tstate[j] \in {"connecting", "await_session", "await_chunk"}
     /\ (cpc = "wait" /\ cpc' = "done") =>
          /\ result' = "False"
          /\ \A i \in Tasks : Settled(i)]_vars

C5_Witness ==
  /\ Returned("False")
  /\ \E i, j \in Tasks : i < j /\ tstate[i] = "failed" /\ tstate[j] = "ok"
  /\ \E k \in 1..Len(chunks) : chunks[k][1] = MAX_CONCURRENT_CHUNKS

\* C6: against this peer server sharing an unmodified file of 3 chunks, a
\* connect_to_peer call that has returned has returned True with the output
\* file byte-identical to the shared file.
C6_DownloadSucceeds ==
  (topology = "local" /\ filename = SharedName /\ cpc = "done") =>
    /\ result = "True"
    /\ outfile.bytes = FileBytes(SharedName)

ValidHello(data) ==
  LET fields == split(raw(data), 2) IN
  /\ startswith(raw(data), HELLO)
  /\ Len(fields) = 3
  /\ Len(fields[3]) = 1 /\ ValidPem(fields[3][1])

HelloPem(data) == split(raw(data), 2)[3][1]

\* C7: once handle_peer has handled a valid HELLO it has generated a key,
\* replied SESSION with that key wrapped under the supplied public key, and
\* serve_file has started.
C7_HelloGetsSession ==
  \A c \in ConnIds :
    (handler[c] # "handle_peer" /\ ValidHello(sfirst[c])) =>
      /\ skey[c] # 0
      /\ Len(s2c[c]) >= 1
      /\ s2c[c][1] = SessionFrame([pub |-> PemName(HelloPem(sfirst[c])), key |-> skey[c]])
      /\ handler[c] \in {"serve_file", "returned"}

C9_BadHelloCloses ==
  \A c \in ConnIds :
    (handler[c] # "handle_peer" /\ sfirst[c] # NoFrame
       /\ (~startswith(raw(sfirst[c]), HELLO) \/ Len(split(raw(sfirst[c]), 2)) # 3)) =>
      /\ s2c[c] = <<>>
      /\ skey[c] = 0
      /\ handler[c] \in {"returned", "raised"}
      /\ ~sopen[c]

\* a frame that is not an intact AES-GCM frame under the key
BadFrame(key, frame) ==
  /\ frame # EOF
  /\ frame # NoFrame
  /\ ~(frame.enc /\ frame.key = key /\ frame.intact)

\* C10: a frame that serve_file cannot decrypt gets no reply and closes the
\* connection, and serve_file reads and writes nothing on it afterwards.
C10_DecryptFailureIsFatal ==
  [][\A c \in ConnIds :
       /\ (handler[c] = "serve_file" /\ srd'[c] # srd[c] /\ BadFrame(skey[c], slast'[c])) =>
            /\ s2c'[c] = s2c[c]
            /\ handler'[c] = "returned"
            /\ ~sopen'[c]
       /\ (handler[c] = "returned" /\ BadFrame(skey[c], slast[c])) =>
            /\ srd'[c] = srd[c]
            /\ s2c'[c] = s2c[c]
            /\ handler'[c] = "returned"
            /\ ~sopen'[c]]_vars

C10_Witness ==
  \E c \in ConnIds :
    /\ handler[c] = "returned"
    /\ BadFrame(skey[c], slast[c])
    /\ Len(s2c[c]) = 1
    /\ ~sopen[c]

\* a request frame of a client that holds the session key
Request(c, body) == aes_encrypt(skey[c], body, NoDigest)

\* serve_file reads the frame on connection c in this step
Reads(c, frame) ==
  handler[c] = "serve_file" /\ srd'[c] = srd[c] + 1 /\ slast'[c] = frame

NotFoundReply(c) ==
  aes_encrypt(skey[c], <<"ERROR", "|", "File not found: ", "nope">>, NoDigest)

NotFoundRequests == {<<"META", "|", "nope">>, <<"GET", "|", "nope", "|", "0">>}

\* C11: a META or GET request for a file that is not shared is answered with
\* ERROR|File not found: <filename>, the connection stays open in serve_file,
\* and a valid request that follows on the connection is served.
C11_NotFoundKeepsServing ==
  [][\A c \in ConnIds :
       /\ \A body \in NotFoundRequests :
            Reads(c, Request(c, body)) =>
              /\ s2c'[c] = Append(s2c[c], NotFoundReply(c))
              /\ handler'[c] = "serve_file"
              /\ sopen'[c]
       /\ (\E body \in NotFoundRequests : slast[c] = Request(c, body)) =>
            /\ Reads(c, Request(c, <<"META", "|", "f.bin">>)) =>
                 /\ Len(s2c'[c]) = Len(s2c[c]) + 1
                 /\ s2c'[c][Len(s2c'[c])] =
                      aes_encrypt(skey[c],
                                  <<"META", "|", "f.bin", "|", str(Len(FileBytes(SharedName))),
                                    "|", str(CHUNK_SIZE), "|", "3", "|", "<sha>">>,
                                  FileBytes(SharedName))
            /\ Reads(c, Request(c, <<"GET", "|", "f.bin", "|", "0">>)) =>
                 /\ Len(s2c'[c]) = Len(s2c[c]) + 1
                 /\ s2c'[c][Len(s2c'[c])] =
                      Request(c, <<"CHUNK", "|", "0", "|">>
                                   \o SubSeq(FileBytes(SharedName), 1, CHUNK_SIZE))]_vars

C11_Witness ==
  \E c \in ConnIds :
    /\ Len(s2c[c]) = 2
    /\ s2c[c][1] = NotFoundReply(c)
    /\ s2c[c][2].body[1] \in {"META", "CHUNK"}
    /\ handler[c] = "serve_file"
    /\ sopen[c]

\* C12: a GET for a shared file with a chunk index past its last chunk is
\* answered with an ERROR frame and the connection stays open.
C12_BadIndexGetsError ==
  [][\A c \in ConnIds :
       Reads(c, Request(c, <<"GET", "|", "f.bin", "|", "3">>)) =>
         /\ Len(s2c'[c]) = Len(s2c[c]) + 1
         /\ s2c'[c][Len(s2c'[c])].body[1] = "ERROR"
         /\ handler'[c] = "serve_file"
         /\ sopen'[c]]_vars

\* C13: a decrypted request that is none of META, GET and DONE ends the loop
\* of serve_file; nothing is read on the connection afterwards.
C13_UnknownRequestEndsLoop ==
  [][\A c \in ConnIds :
       /\ Reads(c, Request(c, <<"PING">>)) => handler'[c] = "returned"
       /\ (handler[c] # "none" /\ slast[c] = Request(c, <<"PING">>)) => srd'[c] = srd[c]]_vars

\* C14: DONE closes the connection and nothing is served on it afterwards; a
\* read of zero bytes ends the loop without an exception; in both cases the
\* other connections are left alone and the next connection can be accepted.
C14_DoneAndDisconnect ==
  [][\A c \in ConnIds :
       /\ Reads(c, Request(c, <<"DONE">>)) =>
            /\ handler'[c] = "returned"
            /\ ~sopen'[c]
            /\ s2c'[c] = s2c[c]
       /\ Reads(c, EOF) =>
            /\ handler'[c] = "returned"
            /\ s2c'[c] = s2c[c]
       /\ (Reads(c, Request(c, <<"DONE">>)) \/ Reads(c, EOF)) =>
            \A d \in ConnIds \ {c} :
              /\ handler'[d] = handler[d]
              /\ sopen'[d] = sopen[d]
              /\ skey'[d] = skey[d]
              /\ s2c'[d] = s2c[d]
       /\ (handler[c] = "returned" /\ slast[c] \in {Request(c, <<"DONE">>), EOF}) =>
            /\ srd'[c] = srd[c]
            /\ s2c'[c] = s2c[c]
            /\ handler'[c] = "returned"
            /\ (topology = "remote_client" /\ NextConn \in ServerConns) =>
                 ENABLED Accept(NextConn)]_vars

C14_Witness ==
  \E c, d \in ServerConns :
    /\ c < d
    /\ handler[c] = "returned"
    /\ slast[c] \in {Request(c, <<"DONE">>), EOF}
    /\ srd[d] > 0

\* the registry handles a request of the kind op in this step
Handles(op) == rsteps' = rsteps + 1 /\ now' = now /\ resp'.op = op

Live(info) == now - info.last_seen <= TIL

\* C15: no entry that get_peers returns is older than the TTL at the time of
\* the query.
C15_NoStaleEntryReturned ==
  [][Handles("get_peers") =>
       \A k \in 1..Len(resp'.peers) :
         LET j == Lookup(PEERS, resp'.peers[k].peer_id) IN
         j # 0 /\ Live(PEERS[j])]_vars

C15_Witness ==
  /\ resp.op = "get_peers"
  /\ resp.status = "peers"
  /\ now > TIL
  /\ Len(resp.peers) >= 1
  /\ Len(PEERS) >= 2

\* C16: a get_peers call completes normally, leaves exactly the live entries
\* in PEERS and returns them (those that match the file filter).
C16_EvictsAndReturnsSurvivors ==
  [][Handles("get_peers") =>
       /\ resp'.status = "peers"
       /\ PEERS' = SelectSeq(PEERS, Live)
       /\ \A k \in 1..Len(PEERS') :
            (resp'.file = NoFilter \/ InList(resp'.file, PEERS'[k].files)) =>
              InList(Listed(PEERS'[k]), resp'.peers)
       /\ \A k \in 1..Len(resp'.peers) :
            \E j \in 1..Len(PEERS') : resp'.peers[k] = Listed(PEERS'[j])]_vars

RECURSIVE Matching(_, _, _)
\* the live entries of peers from index k on whose files contain file
Matching(peers, k, file) ==
  IF k > Len(peers) THEN <<>>
  ELSE (IF Live(peers[k]) /\ (file = NoFilter \/ InList(file, peers[k].files))
        THEN <<Listed(peers[k])>> ELSE <<>>) \o Matching(peers, k + 1, file)

\* C17: get_peers(file) returns exactly the live entries whose file list
\* contains file, and all live entries when no filter is given.
C17_FilterReturnsMatchingLive ==
  [][Handles("get_peers") =>
       /\ resp'.status = "peers"
       /\ resp'.peers = Matching(PEERS, 1, resp'.file)]_vars

\* C18: a registration leaves exactly one entry of the peer_id, at the place
\* of the earlier one if there was one, with the files, port and public key
\* of this request, the ip this call determined and last_seen = now; the
\* other entries stay as they are.
C18_RegisterOverwrites ==
  [][Handles("register_peer") =>
       \E data \in RegisterRequests :
         LET k == Lookup(PEERS, data.peer_id)
             k1 == Lookup(PEERS', data.peer_id)
         IN  /\ resp'.peer_id = data.peer_id
             /\ k1 # 0
             /\ \A j \in 1..Len(PEERS') : PEERS'[j].peer_id = data.peer_id => j = k1
             /\ PEERS'[k1].files = data.files
             /\ PEERS'[k1].port = data.port
             /\ PEERS'[k1].public_key = data.public_key
             /\ PEERS'[k1].ip = resp'.ip
             /\ PEERS'[k1].last_seen = now
             /\ IF k = 0
                THEN PEERS' = Append(PEERS, PEERS'[k1])
                ELSE k1 = k /\ PEERS' = [PEERS EXCEPT ![k] = PEERS'[k1]]]_vars

C18_Witness ==
  /\ resp.op = "register_peer"
  /\ resp.peer_id = "p1"
  /\ Len(PEERS) = 2
  /\ PEERS[1].peer_id = "p1"
  /\ PEERS[1].files = <<"g.bin">>
  /\ PEERS[1].last_seen > PEERS[2].last_seen

\* C19: a heartbeat of a peer_id that has no entry reports "peer not found"
\* and leaves PEERS as it is; a heartbeat of a peer_id that has an entry sets
\* its last_seen to now.
C19_HeartbeatKnownOnly ==
  [][Handles("heartbeat") =>
       LET k == Lookup(PEERS, resp'.peer_id) IN
       IF k = 0
       THEN resp'.status = "peer not found" /\ PEERS' = PEERS
       ELSE /\ resp'.status = "heartbeat received"
            /\ Len(PEERS') = Len(PEERS)
            /\ PEERS'[k].peer_id = resp'.peer_id
            /\ PEERS'[k].last_seen = now]_vars

C19_Witness ==
  /\ resp.op = "heartbeat"
  /\ resp.status = "peer not found"
  /\ Len(PEERS) >= 1
  /\ now > 0

\* C20: download_from_discovery calls connect_to_peer for the peers in the
\* order of the registry response, one after the other; it returns True at the
\* first call that succeeded and calls no later peer; it returns False when
\* the list is empty or every call failed.
C20_FirstSuccessInOrder ==
  /\ Len(dtried) <= Len(dpeers)
  /\ \A k \in 1..Len(dtried) : dtried[k] = dpeers[k]
  /\ dresult = "True" => (cpc = "done" /\ result = "True")
  /\ (dpc = "done" /\ dresult = "False") =>
       (dtried = dpeers /\ (dpeers # <<>> => (cpc = "done" /\ result = "False")))
  /\ (dpc = "done" /\ dpeers = <<>>) => dresult = "False"
  /\ (dpc = "done" /\ cpc = "done" /\ result = "True") => dresult = "True"

C20_Witness ==
  /\ dpc = "done"
  /\ dresult = "True"
  /\ Len(dtried) = 2
  /\ Len(dpeers) = 3

\* C21: when get_file_metadata yielded no metadata (connection refused,
\* handshake refused, ERROR reply, malformed or undecryptable META reply),
\* connect_to_peer has returned False, no download_chunk task was created, no
\* chunk connection was opened and the file at output_path is the one that
\* was there before the call.
C21_NoMetaFailsFast ==
  (cpc = "done" /\ meta = NoMeta) =>
    /\ result = "False"
    /\ \A i \in ChunkIdx :
         /\ tstate[i] = "none"
         /\ ~copen[ChunkConn(i)]
         /\ c2s[ChunkConn(i)] = <<>>
    /\ chunks = <<>>
    /\ ~opened
    /\ outfile = outfile0

C21_Witness ==
  /\ Returned("False")
  /\ meta = NoMeta
  /\ copen[MetaConn]
  /\ outfile = OldFile

\* C22: a chunk fetch whose read never completes is eventually counted as the
\* failure of its chunk, and connect_to_peer then returns False.
C22_BlockedReadTimesOut ==
  /\ \A i \in ChunkIdx : (tstate[i] = "read_blocked") ~> (tstate[i] = "failed")
  /\ (\E i \in ChunkIdx : tstate[i] = "read_blocked") ~> Returned("False")

\* the least n with n * c >= s
Ceil(s, c) == CHOOSE n \in 0..s : n * c >= s /\ \A m \in 0..(n - 1) : m * c < s

\* C23: for a file of s bytes and chunk size c, get_file_metadata reports
\* chunks = ceil(s / c), and for s > 0 read_chunk returns s - c * (chunks - 1)
\* bytes for the last chunk.
C23_ChunkCountIsCeiling ==
  store_meta # NoStoreMeta =>
    LET s == Len(shared_bytes)
        c == chunk_size
        n == store_meta.chunks
    IN  /\ store_meta.size = s
        /\ store_meta.chunksize = c
        /\ n = Ceil(s, c)
        /\ (s > 0 /\ Len(store_chunks) >= n) => Len(store_chunks[n]) = s - c * (n - 1)

C23_Witness ==
  /\ store_meta.chunks >= 2
  /\ Len(store_chunks) >= store_meta.chunks
  /\ chunk_size >= 2
  /\ Len(shared_bytes) % chunk_size = 0

RECURSIVE Flatten(_)
\* the concatenation of a list of byte strings
Flatten(list) == IF list = <<>> THEN <<>> ELSE Head(list) \o Flatten(Tail(list))

\* C24: read_chunk(path, i) for 0 <= i < chunks returns the bytes
\* [i * c, min((i + 1) * c, s)) of the file, so every chunk but the last has c
\* bytes, and the chunks 0..chunks-1 concatenated are the file, whose digest
\* is the hash get_file_metadata reports.
C24_ChunksTileTheFile ==
  store_meta # NoStoreMeta =>
    LET s == Len(shared_bytes)
        c == chunk_size
        n == store_meta.chunks
    IN  /\ \A k \in 1..Len(store_chunks) :
             k <= n =>
               /\ Len(store_chunks[k]) = Min(k * c, s) - (k - 1) * c
               /\ \A j \in 1..Len(store_chunks[k]) :
                    store_chunks[k][j] = shared_bytes[(k - 1) * c + j]
               /\ k < n => Len(store_chunks[k]) = c
        /\ Len(store_chunks) >= n =>
             /\ Flatten(SubSeq(store_chunks, 1, n)) = shared_bytes
             /\ store_meta.hash = sha256(Flatten(SubSeq(store_chunks, 1, n)))

C24_Witness ==
  /\ store_meta.chunks >= 3
  /\ Len(store_chunks) = store_meta.chunks
  /\ Len(store_chunks[store_meta.chunks]) < chunk_size

\* C25: the payload of the CHUNK frame serve_file writes for chunk i of the
\* shared file, as download_single_chunk extracts it from the frame, is the
\* byte string read_chunk returned, delimiter bytes included.
C25_ChunkFrameBinarySafe ==
  [][\A c \in ConnIds, i \in {0, 2} :
       Reads(c, Request(c, <<"GET", "|", "f.bin", "|", str(i)>>)) =>
         LET chunk_data == ParseChunk(skey[c], s2c'[c][Len(s2c'[c])]) IN
         /\ Len(s2c'[c]) = Len(s2c[c]) + 1
         /\ ~chunk_data.none
         /\ chunk_data.bytes = read_chunk(FileBytes(SharedName), i)]_vars

C25_Witness ==
  \E c \in ConnIds :
    /\ Len(s2c[c]) >= 1
    /\ s2c[c][Len(s2c[c])].body = <<"CHUNK", "|", "0", "|", "a", "|">>
    /\ ParseChunk(skey[c], s2c[c][Len(s2c[c])]).bytes = <<"a", "|">>

\* the tasks that hold an open connection of their own
Fetching == {i \in ChunkIdx : tstate[i] \in {"await_session", "await_chunk", "read_blocked"}}

\* C26: the metadata fetch and every chunk fetch run on a connection of their
\* own and hold a session key only from the handshake on it and only while
\* they run; the server generates a key per connection, no two connections
\* have the same key, every frame it writes on a connection is under the key
\* of that connection, and once the handler of a connection has ended
\* nothing is read or written with its key.
C26_KeyPerConnection ==
  /\ [](/\ \A c, d \in ConnIds : (c # d /\ skey[c] # 0) => skey[c] # skey[d]
        /\ \A c \in ConnIds :
             /\ skey[c] # 0 => handler[c] \notin {"none", "handle_peer"}
             /\ \A k \in 1..Len(s2c[c]) : s2c[c][k].enc => s2c[c][k].key = skey[c]
        /\ \A i \in ChunkIdx :
             /\ i \in Fetching => copen[ChunkConn(i)]
             /\ aes_key[ChunkConn(i)] # 0 =>
                  /\ i \in Fetching
                  /\ encrypted_key[ChunkConn(i)].key = aes_key[ChunkConn(i)]
        /\ aes_key[MetaConn] # 0 =>
             /\ cpc \in {"meta_reply", "meta_read_blocked"}
             /\ copen[MetaConn]
             /\ encrypted_key[MetaConn].key = aes_key[MetaConn])
  /\ [][\A c \in ConnIds :
          /\ skey[c] # 0 => skey'[c] = skey[c]
          /\ handler[c] \in {"returned", "raised"} =>
               /\ handler'[c] = handler[c]
               /\ srd'[c] = srd[c]
               /\ s2c'[c] = s2c[c]]_vars

C26_Witness ==
  \E c, d \in ServerConns :
    /\ c # d
    /\ handler[c] = "returned"
    /\ skey[c] # 0
    /\ skey[d] # 0
    /\ Len(s2c[d]) >= 1

\* the HELLO frame of data with its peer_id replaced by the id of its key
WithMatchingId(data) ==
  LET pem == HelloPem(data) IN
  Plain(<<HELLO, "|", get_peer_id(load_pem_public_key(PemBytes(PemName(pem)))), "|", pem>>)

Fails(c) ==
  /\ handler[c] \in {"handle_peer", "serve_file"}
  /\ handler'[c] \in {"raised", "returned"}
  /\ ~(handler[c] = "serve_file" /\ slast'[c] \in {Request(c, <<"DONE">>), EOF})

Failed(c) ==
  \/ handler[c] = "raised"
  \/ handler[c] = "returned" /\ slast[c] \notin {Request(c, <<"DONE">>), EOF}

\* C28: a step in which a connection fails leaves every other connection as
\* it is, and with a failed connection around the server still accepts the
\* next connection and still handles the frames of the other connections.
C28_FailureIsIsolated ==
  /\ [][\A c \in ConnIds :
          Fails(c) =>
            \A d \in ConnIds \ {c} :
              /\ handler'[d] = handler[d]
              /\ sopen'[d] = sopen[d]
              /\ skey'[d] = skey[d]
              /\ s2c'[d] = s2c[d]
              /\ srd'[d] = srd[d]
              /\ sfirst'[d] = sfirst[d]
              /\ slast'[d] = slast[d]]_vars
  /\ [](\A c \in ConnIds :
          (Failed(c) /\ topology = "remote_client") =>
            /\ NextConn \in ServerConns => ENABLED Accept(NextConn)
            /\ RequestsRead(ConnIds) < MaxRequests =>
                 \A d \in ConnIds \ {c} :
                   /\ handler[d] = "handle_peer" => ENABLED HandlePeer(d)
                   /\ handler[d] = "serve_file" => (sopen[d] /\ ENABLED ServeFile(d)))

C28_Witness ==
  \E c, d \in ServerConns :
    /\ c # d
    /\ Failed(c)
    /\ srd[c] > 0
    /\ handler[d] = "serve_file"
    /\ sopen[d]
    /\ Len(s2c[d]) >= 1

\* C29: when every chunk was fetched and written but the digest of the
\* written bytes is not the advertised one, connect_to_peer returns False
\* and the output file stays as it was written: all chunks in index order.
C29_MismatchKeepsFile ==
  (cpc = "done" /\ opened /\ sha256(hashobj) # meta.hash) =>
    /\ result = "False"
    /\ \A i \in Tasks : tstate[i] = "ok"
    /\ widx = meta.total_chunks
    /\ outfile.exists
    /\ outfile.bytes = InOrder(meta.total_chunks)
    /\ outfile.bytes = hashobj

C29_Witness ==
  /\ Returned("False")
  /\ opened
  /\ meta.total_chunks >= 2
  /\ sha256(hashobj) # meta.hash
  /\ Len(outfile.bytes) >= 3

\* what the handler of request h does when it is run on the dict it found at
\* its start with nothing else in between
Alone(h) ==
  LET hr == handlers[h] IN
  CASE hr.req.op = "register_peer" -> register_peer(hr.start, hr.req.data, ClientHost, now)
    [] hr.req.op = "heartbeat" -> heartbeat(hr.start, hr.req.peer_id, now)
    [] OTHER -> get_peers(hr.start, hr.req.file, now)

\* C30: while a handler of the registry is between its first statement and
\* its return no other handler starts or takes a step and PEERS is changed by
\* no one else, so every handler leaves the PEERS dict and gives the response
\* that it gives when it runs alone on the dict it found.
C30_HandlersAreAtomic ==
  [][\A h \in HandlerIds :
       /\ handlers'[h] # handlers[h] =>
            \A g \in HandlerIds \ {h} : handlers[g].pc \notin Running
       /\ (handlers[h].pc \in Running /\ PEERS' # PEERS) =>
            \A g \in HandlerIds \ {h} : handlers'[g] = handlers[g]
       /\ (handlers[h].pc \in Running /\ handlers'[h].pc = "done") =>
            /\ PEERS' = Alone(h).peers
            /\ handlers'[h].resp = Alone(h).resp]_vars

C30_Witness ==
  \E h, g \in HandlerIds :
    /\ h # g
    /\ handlers[h].pc = "done"
    /\ handlers[h].req.op = "get_peers"
    /\ handlers[h].resp.status = "RuntimeError"
    /\ handlers[g].pc = "done"
    /\ handlers[g].req.op = "register_peer"
    /\ handlers[g].start # handlers[h].start

\* this step handled the registration request data
Registered(data) ==
  /\ Handles("register_peer")
  /\ resp'.peer_id = data.peer_id
  /\ LET k == Lookup(PEERS', data.peer_id) IN
       /\ k # 0
       /\ PEERS'[k].files = data.files
       /\ PEERS'[k].port = data.port
       /\ PEERS'[k].public_key = data.public_key

\* C31: register_peer stores the ip of the request as it is whenever the
\* request carries one, and the source address of the connection only when
\* the request carries none.
C31_SuppliedIpStoredAsIs ==
  [][\A data \in RegisterRequests :
       Registered(data) =>
         PEERS'[Lookup(PEERS', data.peer_id)].ip =
           (IF data.ip # NoIp THEN data.ip ELSE ClientHost)]_vars

\* an entry of PEERS is gone after this step
Removes == \E k \in 1..Len(PEERS) : Lookup(PEERS', PEERS[k].peer_id) = 0

\* handler h executes a statement in this step
Executes(h) ==
  /\ handlers[h].pc \in Running
  /\ Scheduled(h)
  /\ handlers' # handlers \/ PEERS' # PEERS

\* C33: entries leave PEERS only in get_peers; register_peer and heartbeat
\* keep every entry at its place, the ones that are older than the TTL
\* included.
C33_OnlyQueriesEvict ==
  [][/\ Removes =>
          \/ Handles("get_peers")
          \/ \E h \in HandlerIds : handlers[h].req.op = "get_peers" /\ Executes(h)
     /\ (\/ Handles("register_peer")
         \/ Handles("heartbeat")
         \/ \E h \in HandlerIds :
              handlers[h].req.op \in {"register_peer", "heartbeat"} /\ Executes(h)) =>
          \A k \in 1..Len(PEERS) : Lookup(PEERS', PEERS[k].peer_id) = k]_vars

C33_Witness ==
  /\ resp.op = "register_peer"
  /\ resp.peer_id = "p2"
  /\ Len(PEERS) = 2
  /\ PEERS[1].peer_id = "p1"
  /\ stale(PEERS[1], now)

\* the heartbeat handler h revived the entry of p1: the entry was older than
\* the TTL when the handler started
Revived(h) ==
  /\ handlers[h].req.op = "heartbeat"
  /\ handlers[h].pc = "done"
  /\ handlers[h].resp.status = "heartbeat received"
  /\ Lookup(handlers[h].start, "p1") # 0
  /\ stale(handlers[h].start[Lookup(handlers[h].start, "p1")], now)

\* the query handler g started after the entry of p1 was refreshed
QueriedAfter(g) ==
  /\ handlers[g].req.op = "get_peers"
  /\ handlers[g].pc = "done"
  /\ Lookup(handlers[g].start, "p1") # 0
  /\ handlers[g].start[Lookup(handlers[g].start, "p1")].last_seen = now

HeartbeatOf(peer_id) ==
  \/ Handles("heartbeat") /\ resp'.peer_id = peer_id
  \/ \E h \in HandlerIds :
       /\ handlers[h].req.op = "heartbeat"
       /\ handlers[h].req.peer_id = peer_id
       /\ Executes(h)

\* C40: a heartbeat of peer_id leaves PEERS as it is but for the last_seen
\* field of the entry of peer_id: ip, port, public_key and files of that entry
\* and the entries of the other peers stay.
C40_HeartbeatTouchesLastSeenOnly ==
  [][\A peer_id \in HeartbeatIds :
       HeartbeatOf(peer_id) =>
         /\ Len(PEERS') = Len(PEERS)
         /\ \A j \in 1..Len(PEERS) :
              PEERS'[j] = IF PEERS[j].peer_id = peer_id
                          THEN [PEERS[j] EXCEPT !.last_seen = PEERS'[j].last_seen]
                          ELSE PEERS[j]]_vars

C40_Witness ==
  /\ resp.op = "heartbeat"
  /\ resp.peer_id = "p1"
  /\ resp.status = "heartbeat received"
  /\ Len(PEERS) = 2
  /\ PEERS[1] = [TwoPeers[1] EXCEPT !.last_seen = now]
  /\ PEERS[2].peer_id = "p2"
  /\ PEERS[2].last_seen < now

\* the registry holds no entry of the peer that runs the heartbeat loop
Absent(peers) == Lookup(peers, RunnerId) = 0

\* C39: once the peer has made its one registration attempt and the registry
\* holds no entry of it (the attempt failed, or the entry was evicted), no
\* step of the heartbeat loop brings the entry back: every heartbeat that
\* reaches the registry is answered "peer not found" and no query lists the
\* peer.
C39_LoopNeverReregisters ==
  [][(topology = "runner" /\ reg_success # "none" /\ Absent(PEERS)) =>
       /\ Absent(PEERS')
       /\ resp'.op = "heartbeat" => resp'.status = "peer not found"
       /\ \A k \in 1..Len(resp'.peers) : resp'.peers[k].peer_id # RunnerId]_vars

C39_Witness ==
  /\ topology = "runner"
  /\ reg_success = "True"
  /\ PEERS = <<>>
  /\ resp.op = "heartbeat"
  /\ resp.status = "peer not found"

\* get_file_metadata has returned to connect_to_peer
MetaReturned == cpc \in {"gather", "wait", "write", "done"}

\* C32: when get_file_metadata has returned, the client holds no open socket
\* of the metadata connection, and when download_single_chunk has returned for
\* a chunk, the client holds no open socket of that chunk's connection,
\* whichever way the function returned.
C32_ConnectionsClosedOnReturn ==
  /\ MetaReturned => ~copen[MetaConn]
  /\ \A i \in ChunkIdx : Settled(i) => ~copen[ChunkConn(i)]

\* download_single_chunk of task i has read the reply the peer wrote
ReadReply(i) == topology = "fetch" /\ Settled(i) /\ wire[i] \notin {NoFrame, EOF}

\* C34: what download_single_chunk hands to aes_decrypt is the whole frame
\* the peer wrote in reply to GET, however the transport delivered it: the
\* read never returns with a proper prefix of the frame.
C34_DecryptsWholeFrame ==
  \A i \in ChunkIdx : ReadReply(i) => arrived[i] = "all"

\* the chunk index field of a CHUNK frame
ReplyIndex(frame) == split(frame.body, 2)[2]

\* C35: the bytes stored under chunks[i] were the payload of a CHUNK reply
\* whose index field is i.
C35_StoredChunkHasRequestedIndex ==
  \A i \in ChunkIdx :
    (ReadReply(i) /\ InChunks(i)) => ReplyIndex(wire[i]) = <<str(i)>>

\* task i read, whole and under the session key, a CHUNK reply without payload
EmptyChunk(i) ==
  /\ ReadReply(i)
  /\ arrived[i] = "all"
  /\ \E j \in {i, i + 1} :
       wire[i] = aes_encrypt(RemoteKey(ChunkConn(i)), ChunkBody(j, <<>>), NoDigest)

\* C36: a CHUNK reply with an empty payload makes its task fail: nothing is
\* stored for the chunk, the output file is not opened and connect_to_peer
\* returns False.  No entry of chunks ever holds empty bytes, and the tasks
\* that returned True are exactly those with an entry.
C36_EmptyChunkFails ==
  /\ \A k \in 1..Len(chunks) : chunks[k][2] # <<>>
  /\ \A i \in ChunkIdx : tstate[i] = "ok" <=> InChunks(i)
  /\ \A i \in ChunkIdx :
       EmptyChunk(i) =>
         /\ tstate[i] = "failed"
         /\ ~opened
         /\ cpc \in {"wait", "done"}
         /\ cpc = "done" => result = "False"

C36_Witness ==
  /\ EmptyChunk(0)
  /\ Returned("False")
  /\ chunks = <<>>
  /\ outfile = NoFile

\* the tasks that hold a slot of the semaphore
Holding == InFlight \cup {i \in Tasks : tstate[i] = "woken"}

\* a fetch does not terminate: its peer stays silent
SomeReadBlocked == \E j \in ChunkIdx : tstate[j] = "read_blocked"

\* C37: while the tasks run, the free slots and the slots held add up to
\* MAX_CONCURRENT_CHUNKS (a task that settles gives its slot back), and when
\* no fetch stays in a read for ever every task that waits for a slot is
\* eventually admitted and settles.
C37_EveryTaskSettles ==
  /\ [](cpc = "wait" => sem + Cardinality(Holding) = MAX_CONCURRENT_CHUNKS)
  /\ (cpc = "wait") ~> (gather_returns \/ SomeReadBlocked)

C37_Witness ==
  /\ cpc = "wait"
  /\ meta.total_chunks > MAX_CONCURRENT_CHUNKS
  /\ Settled(MAX_CONCURRENT_CHUNKS)
  /\ \E i \in Tasks : tstate[i] = "failed"
  /\ \E i \in Tasks : tstate[i] = "ok"

====
